---- MODULE Spec2Model ----
(***************************************************************************)
(* The guild-scoped playback sessions of the music bot                     *)
(* (apps/music_bot/cogs/music_player.py, apps/music_bot/main.py), and the  *)
(* retrying API call of the shared base bot (libs/shared_utils/base_bot.py).*)
(*                                                                         *)
(* One asyncio event loop runs the command coroutines.  A coroutine is     *)
(* atomic between two awaits that really suspend; an await of a coroutine  *)
(* that never suspends (extract_song_info, play_next, the timer helpers)   *)
(* does not yield.  Every action below is one such atomic stretch.         *)
(*                                                                         *)
(* The voice transport is an external library.  What the model takes from  *)
(* it: a guild has at most one registered voice client; connect() raises   *)
(* at once when one is registered; disconnect() stops the player, marks    *)
(* the client disconnected and unregisters it before it suspends; play()   *)
(* raises when the client is already playing; stopping a player makes its  *)
(* thread call the `after` callback.  A handle is therefore "live" (it is  *)
(* the registered client) or "dead" (a client that was disconnected).      *)
(***************************************************************************)
EXTENDS Integers, Sequences, FiniteSets, TLC

\* ---- bounds of the model
MaxPlays == 3       \* play commands issued in one run (a track is its command's number)
MaxInFlight == 2    \* play commands suspended at the same time
MaxStops == 1       \* stop commands issued in one run
MaxDrops == 1       \* unexpected transport disconnects in one run
CmdPlays == 2       \* play commands issued in one run of SpecCmd
CmdStops == 2       \* stop commands issued in one run of SpecCmd
MaxCalls == 4       \* calls of func whose outcome is drawn for one safe_api_call
MaxSongs == 2            \* songs of the stored playlist

\* ---- program constants
max_retries == 2    \* connect attempts of one play command
stop_after_attempt == 3     \* attempts of one safe_api_call
NoTrack == 0        \* Song | None = None

Guilds == {"g1", "g2"}
GuildSeq == <<"g1", "g2">>      \* the order of `for guild in self.bot.guilds`
Channels == {"A", "B"}
Plays == 1..MaxPlays
Stops == 1..MaxStops
StopIds == 1..(IF CmdStops > MaxStops THEN CmdStops ELSE MaxStops)
Tracks == Plays

\* the songs of a playlist of n songs, in playlist order; the playlist command is
\* command MaxPlays and its songs are numbered from there
playlist_songs(n) == [i \in 1..n |-> MaxPlays + i - 1]

VARIABLES
    startup,            \* the _cleanup_stale_voice_sessions task that __init__ schedules
    guilds,             \* bot.guilds: the guilds the bot is a member of
    queues,             \* MusicPlayer.queues: guild -> MusicQueue (present = key in dict)
    voice_clients,      \* MusicPlayer.voice_clients: guild -> "none" | "live" | "dead"
    inactivity_timers,  \* MusicPlayer.inactivity_timers: guild -> state of the stored task
    transport,          \* the library's registered voice client of each guild
    advances,           \* play_next invocations handed to the loop by `after` callbacks
    vsu,                \* a voice-state update "bot left the channel" awaiting delivery
    plays,              \* the play command coroutines
    reply,              \* the last reply a command sent: who, and which
    stops,              \* the stop command coroutines
    drops,              \* unexpected disconnects so far
    api,                \* one BaseBot.safe_api_call: its position, and the calls of func so far
    timer_tasks         \* inactivity_timeout tasks created and neither cancelled nor finished

vars == <<startup, guilds, queues, voice_clients, inactivity_timers, transport, advances, vsu,
          plays, reply, stops, drops, api, timer_tasks>>

\* ---- MusicQueue ---------------------------------------------------------

NewQueue == [present |-> TRUE, queue |-> <<>>, current |-> NoTrack,
             is_playing |-> FALSE, is_paused |-> FALSE]

AbsentQueue == [NewQueue EXCEPT !.present = FALSE]

\* an add that puts the song at the head of the queue (LIFO)
add_front(q, song) == [q EXCEPT !.queue = <<song>> \o @]

add(q, song) == [q EXCEPT !.queue = Append(@, song)]

\* play_playlist's loop `for song_data in songs: queue.add(song)`
RECURSIVE add_all(_, _)
add_all(q, songs) ==
    IF songs = <<>> THEN q ELSE add_all(add(q, Head(songs)), Tail(songs))

\* a next that returns the newest song instead of the oldest
next_last(q) == IF q.queue # <<>> THEN q.queue[Len(q.queue)] ELSE NoTrack

\* a next that returns the head without removing it
next_keep(q) == q

\* a next that also clears the paused flag
next_unpause(q) ==
    IF q.queue # <<>> THEN [q EXCEPT !.queue = Tail(@), !.is_paused = FALSE] ELSE q

\* MusicQueue.next returns (song, queue after): here the two halves
next_song(q) == IF q.queue # <<>> THEN Head(q.queue) ELSE NoTrack

next_rest(q) == IF q.queue # <<>> THEN [q EXCEPT !.queue = Tail(@)] ELSE q

\* a clear that empties the pending songs only
clear_pending(q) == [q EXCEPT !.queue = <<>>]

clear(q) == [q EXCEPT !.queue = <<>>, !.current = NoTrack,
                      !.is_playing = FALSE, !.is_paused = FALSE]

get_queue_list(q) == q.queue

\* a get_queue that makes a new queue at every call
get_queue_fresh(qs, g) == [qs EXCEPT ![g] = NewQueue]

\* MusicPlayer.get_queue: the registry after get-or-create
get_queue(qs, g) == IF qs[g].present THEN qs ELSE [qs EXCEPT ![g] = NewQueue]

\* ---- the transport ------------------------------------------------------

NoTransport == [st |-> "none", chan |-> "-", play |-> "idle", track |-> NoTrack]

Dead(h) == IF h = "live" THEN "dead" ELSE h

\* voice_client.is_connected() of a handle
is_connected(h, g) == h = "live" /\ transport[g].st = "connected"

\* The `after` callback of the playback of `track`: one play_next handed to the loop.
\* cause and gen are history: why the player stopped, and whether the client it
\* ran on is still the registered one.
Callback(track, cause, gen) == [track |-> track, cause |-> cause, gen |-> gen]

\* disconnect() of the registered client of g: the effects on each variable
KillT(tr, g) == [tr EXCEPT ![g] = NoTransport]

KillV(vcs, g) == [vcs EXCEPT ![g] = Dead(@)]

KillA(adv, tr, g) ==
    [adv EXCEPT ![g] = {[cb EXCEPT !.gen = "dead"] : cb \in @}
        \cup (IF tr[g].play # "idle"
              THEN {Callback(tr[g].track, "kill", "dead")} ELSE {})]

KillP(ps, g) ==
    [p \in Plays |-> IF ps[p].guild = g THEN [ps[p] EXCEPT !.vc = Dead(@)] ELSE ps[p]]

\* ---- initial state: MusicPlayer.__init__ ---------------------------------

NoReply == [play |-> 0, result |-> "none", position |-> 0]

IdlePlay == [pc |-> "init", guild |-> "g1", chan |-> "A", attempt |-> 0, vc |-> "none"]

\* caught is history: a play command was connecting when the stop arrived
IdleStop == [pc |-> "init", guild |-> "g1", caught |-> FALSE]

\* the start-up clean-up task: where it is, and the next guild of its loop
CleanupDone == [pc |-> "done", i |-> 0]

CleanupScheduled == [pc |-> "sleep", i |-> 1]

\* no safe_api_call under way
ApiIdle == [pc |-> "idle", calls |-> 0, script |-> <<>>, result |-> "none"]

\* the session once the start-up clean-up has run
Init ==
    /\ startup = CleanupDone
    /\ guilds = {"g1"}
    /\ queues = [g \in Guilds |-> AbsentQueue]
    /\ voice_clients = [g \in Guilds |-> "none"]
    /\ inactivity_timers = [g \in Guilds |-> "none"]
    /\ timer_tasks = [g \in Guilds |-> 0]
    /\ transport = [g \in Guilds |-> NoTransport]
    /\ advances = [g \in Guilds |-> {}]
    /\ vsu = [g \in Guilds |-> FALSE]
    /\ plays = [p \in Plays |-> IdlePlay]
    /\ reply = NoReply
    /\ stops = [s \in StopIds |-> IdleStop]
    /\ drops = 0
    /\ api = ApiIdle

\* ---- the inactivity watchdog ----------------------------------------------

\* a cancel that drops the watchdog of every guild
cancel_every_timer(timers, g) == [h \in Guilds |-> "none"]

\* an entry is "none" when the guild is not a key of inactivity_timers
cancel_inactivity_timer(timers, g) == [timers EXCEPT ![g] = "none"]

\* a reset that cancels the watchdog of every guild
reset_all_timers(timers, g) == [h \in Guilds |-> "none"]

reset_inactivity_timer(timers, g) == cancel_inactivity_timer(timers, g)

\* the stored task of g has been created and has neither finished nor been cancelled
Pending(timers, g) == timers[g] \in {"sleeping", "disconnecting"}

\* the tasks after cancel_inactivity_timer: the stored task, if any, gets cancel()
cancel_task(tasks, timers, g) ==
    IF Pending(timers, g) THEN [tasks EXCEPT ![g] = @ - 1] ELSE tasks

\* the tasks after inactivity_timeout returns
finish_task(tasks, g) == [tasks EXCEPT ![g] = @ - 1]

\* a start that creates the new task without cancelling the stored one
create_task_only(tasks, timers, g) == [tasks EXCEPT ![g] = @ + 1]

\* the tasks after start_inactivity_timer: cancel, then asyncio.create_task
create_task(tasks, timers, g) == [cancel_task(tasks, timers, g) EXCEPT ![g] = @ + 1]

\* a start that cancels the old task and creates no new one
start_no_timer(timers, g) == cancel_inactivity_timer(timers, g)

start_inactivity_timer(timers, g) ==
    [cancel_inactivity_timer(timers, g) EXCEPT ![g] = "sleeping"]

\* inactivity_timeout after its sleep: disconnect when connected, idle and empty
TimerFire(g) ==
    /\ inactivity_timers[g] = "sleeping"
    /\ IF is_connected(voice_clients[g], g)
       THEN LET qs == get_queue(queues, g)
            IN /\ queues' = qs
               /\ IF ~qs[g].is_playing /\ Len(qs[g].queue) = 0
                  THEN /\ transport' = KillT(transport, g)
                       /\ voice_clients' = KillV(voice_clients, g)
                       /\ advances' = KillA(advances, transport, g)
                       /\ plays' = KillP(plays, g)
                       /\ inactivity_timers' = [inactivity_timers EXCEPT ![g] = "disconnecting"]
                       /\ UNCHANGED timer_tasks
                  ELSE /\ inactivity_timers' = [inactivity_timers EXCEPT ![g] = "done"]
                       /\ timer_tasks' = finish_task(timer_tasks, g)
                       /\ UNCHANGED <<transport, voice_clients, advances, plays>>
       ELSE /\ inactivity_timers' = [inactivity_timers EXCEPT ![g] = "done"]
            /\ timer_tasks' = finish_task(timer_tasks, g)
            /\ UNCHANGED <<queues, transport, voice_clients, advances, plays>>
    /\ UNCHANGED <<api, startup, guilds, vsu, reply, stops, drops>>

\* inactivity_timeout resumed after voice_client.disconnect()
TimerDisconnected(g) ==
    /\ inactivity_timers[g] = "disconnecting"
    /\ voice_clients' = [voice_clients EXCEPT ![g] = "none"]
    /\ inactivity_timers' = [inactivity_timers EXCEPT ![g] = "done"]
    /\ timer_tasks' = finish_task(timer_tasks, g)
    /\ UNCHANGED <<api, startup, guilds, queues, transport, advances, vsu, plays, reply, stops, drops>>

\* ---- play_next ------------------------------------------------------------

\* start_ok: creating the audio source does not raise.  voice_client.play raises
\* when the client is already playing.
play_next_in(qs0, vcs0, g, start_ok) ==
    LET qs == get_queue(qs0, g)
        q  == qs[g]
        vc == vcs0[g]
    IN IF vc = "none" \/ ~is_connected(vc, g)
       THEN /\ voice_clients' = [vcs0 EXCEPT ![g] = "none"]
            /\ queues' = [qs EXCEPT ![g].is_playing = FALSE]
            /\ UNCHANGED <<inactivity_timers, timer_tasks, transport>>
       ELSE IF next_song(q) # NoTrack
       THEN LET started == start_ok /\ transport[g].play # "playing"
                q1 == [next_rest(q) EXCEPT !.current = next_song(q),
                                           !.is_playing = TRUE, !.is_paused = FALSE]
            IN /\ queues' = [qs EXCEPT ![g] = IF started THEN q1
                                              ELSE [q1 EXCEPT !.is_playing = FALSE]]
               /\ transport' = IF started
                               THEN [transport EXCEPT ![g].play = "playing",
                                                      ![g].track = next_song(q)]
                               ELSE transport
               /\ inactivity_timers' = IF started
                                       THEN reset_inactivity_timer(inactivity_timers, g)
                                       ELSE inactivity_timers
               /\ timer_tasks' = IF started
                                 THEN cancel_task(timer_tasks, inactivity_timers, g)
                                 ELSE timer_tasks
               /\ voice_clients' = vcs0
       ELSE /\ queues' = [qs EXCEPT ![g].is_playing = FALSE, ![g].current = NoTrack]
            /\ inactivity_timers' = start_inactivity_timer(inactivity_timers, g)
            /\ timer_tasks' = create_task(timer_tasks, inactivity_timers, g)
            /\ voice_clients' = vcs0
            /\ UNCHANGED transport

\* play_next on the queues and handles as they are now
play_next(g, start_ok) == play_next_in(queues, voice_clients, g, start_ok)

\* The loop runs one play_next that an `after` callback scheduled.
Advance(g) ==
    \E cb \in advances[g], start_ok \in BOOLEAN :
        /\ advances' = [advances EXCEPT ![g] = @ \ {cb}]
        /\ play_next(g, start_ok)
        /\ UNCHANGED <<api, startup, guilds, vsu, plays, reply, stops, drops>>

\* an `after` callback that marks the queue idle itself, on the player thread
TrackFinishedDirect(g) ==
    /\ transport[g].play = "playing"
    /\ transport' = [transport EXCEPT ![g].play = "idle", ![g].track = NoTrack]
    /\ advances' = [advances EXCEPT ![g] = @ \cup {Callback(transport[g].track, "end", "live")}]
    /\ queues' = [queues EXCEPT ![g].is_playing = FALSE]
    /\ UNCHANGED <<api, startup, guilds, voice_clients, inactivity_timers, timer_tasks, vsu, plays, reply, stops, drops>>

\* The player thread reaches the end of the track (or a player error): `after` runs.
TrackFinished(g) ==
    /\ transport[g].play = "playing"
    /\ transport' = [transport EXCEPT ![g].play = "idle", ![g].track = NoTrack]
    /\ advances' = [advances EXCEPT ![g] = @ \cup {Callback(transport[g].track, "end", "live")}]
    /\ UNCHANGED <<api, startup, guilds, queues, voice_clients, inactivity_timers, timer_tasks, vsu, plays, reply, stops, drops>>

\* a player error after which no play_next is scheduled
TrackFailedSilently(g) ==
    /\ transport[g].play = "playing"
    /\ transport' = [transport EXCEPT ![g].play = "idle", ![g].track = NoTrack]
    /\ UNCHANGED <<api, startup, guilds, queues, voice_clients, inactivity_timers, timer_tasks,
                   advances, vsu, plays, reply, stops, drops>>

\* The player fails in the middle of the track: `after` runs with an error, logs
\* it and schedules play_next as for a clean end.
TrackFailed(g) ==
    /\ transport[g].play = "playing"
    /\ transport' = [transport EXCEPT ![g].play = "idle", ![g].track = NoTrack]
    /\ advances' = [advances EXCEPT ![g] = @ \cup {Callback(transport[g].track, "error", "live")}]
    /\ UNCHANGED <<api, startup, guilds, queues, voice_clients, inactivity_timers, timer_tasks,
                   vsu, plays, reply, stops, drops>>

\* ---- the play command -----------------------------------------------------

\* play is inside "Try connecting with proper error handling" or the clean-up before it
ConnectingPcs == {"cleanup_stale", "guild_disc", "connect", "handshake",
                  "cleanup_failed", "exc_disc", "retry_sleep"}

Connecting(g) == {p \in Plays : plays[p].guild = g /\ plays[p].pc \in ConnectingPcs}

InFlight(p) == plays[p].pc \notin {"init", "done"}

\* play has returned
Finished(rec) == [rec EXCEPT !.pc = "done", !.chan = "A", !.attempt = 0, !.vc = "none"]

\* the reply play sends to its caller (ctx.followup.send)
Reply(p, result) == [play |-> p, result |-> result, position |-> 0]

\* a "Position in queue" that counts from 0
QueuedFromZero(p, q) == [Reply(p, "queued") EXCEPT !.position = Len(q.queue) - 1]

\* "Added to queue ... Position in queue: {len(queue.queue)}", sent for song p
\* when the queue is q
Queued(p, q) == [Reply(p, "queued") EXCEPT !.position = Len(q.queue)]

\* play from "Extract song information" to its next await: extract_song_info
\* does not suspend; `found` is whether it returned a Song
Resolve(p, g, found, ps) ==
    IF ~found
    THEN /\ plays' = [ps EXCEPT ![p] = Finished(@)]
         /\ reply' = Reply(p, "resolve_failed")
         /\ UNCHANGED queues
    ELSE LET qs == get_queue(queues, g)
             q  == add(qs[g], p)
         IN /\ queues' = [qs EXCEPT ![g] = q]
            /\ plays' = IF ~q.is_playing
                        THEN [ps EXCEPT ![p].pc = "settle", ![p].attempt = 0, ![p].vc = "none"]
                        ELSE [ps EXCEPT ![p] = Finished(@)]
            /\ reply' = IF ~q.is_playing THEN Reply(p, "now_playing") ELSE Queued(p, q)

\* the end of the except handler of one connect attempt: forget the handle, then
\* sleep before the next attempt or leave the loop and report the failure
AfterExcept(p, g, a, ps, vcs) ==
    /\ voice_clients' = [vcs EXCEPT ![g] = "none"]
    /\ plays' = IF a < max_retries - 1
                THEN [ps EXCEPT ![p].pc = "retry_sleep", ![p].attempt = a, ![p].vc = "none"]
                ELSE [ps EXCEPT ![p] = Finished(@)]
    /\ reply' = IF a < max_retries - 1 THEN reply ELSE Reply(p, "connect_failed")

\* the except handler of one connect attempt: the local voice_client is None;
\* a client the guild still has is force-disconnected
ConnectRaised(p, g, a, ps, vcs) ==
    IF transport[g].st # "none"
    THEN /\ transport' = KillT(transport, g)
         /\ advances' = KillA(advances, transport, g)
         /\ voice_clients' = KillV(vcs, g)
         /\ plays' = [KillP(ps, g) EXCEPT ![p].pc = "exc_disc", ![p].attempt = a,
                                          ![p].vc = "none"]
         /\ UNCHANGED reply
    ELSE /\ AfterExcept(p, g, a, ps, vcs)
         /\ UNCHANGED <<transport, advances>>

\* attempt a of the loop: voice_channel.connect raises at once when the guild has
\* a client, and otherwise registers one and suspends
TryConnect(p, g, a, ps, vcs) ==
    IF transport[g].st = "none"
    THEN /\ transport' = [transport EXCEPT ![g] =
                             [st |-> "connecting", chan |-> ps[p].chan,
                              play |-> "idle", track |-> NoTrack]]
         /\ plays' = [ps EXCEPT ![p].pc = "connect", ![p].attempt = a, ![p].vc = "live"]
         /\ voice_clients' = vcs
         /\ UNCHANGED <<advances, reply>>
    ELSE ConnectRaised(p, g, a, ps, vcs)

\* "Also check for any guild-level voice client"
GuildCheck(p, g, ps, vcs) ==
    IF transport[g].st # "none"
    THEN /\ transport' = KillT(transport, g)
         /\ advances' = KillA(advances, transport, g)
         /\ voice_clients' = KillV(vcs, g)
         /\ plays' = [KillP(ps, g) EXCEPT ![p].pc = "guild_disc", ![p].vc = "none"]
         /\ UNCHANGED reply
    ELSE TryConnect(p, g, 0, ps, vcs)

\* The channels differ in name only: while the guild has no voice client and no
\* play command is under way, the author is taken to be in channel "A".
AuthorChannels(g) ==
    IF transport[g].st = "none" /\ \A r \in Plays : ~InFlight(r)
    THEN {"A"} ELSE Channels

\* the command arrives, ctx.defer() returns, and play runs to its first await
PlayBegin(p, g, ch) ==
    /\ plays[p].pc = "init"
    /\ ch \in AuthorChannels(g)
    /\ IF p = 1 THEN TRUE ELSE plays[p - 1].pc # "init"
    /\ Cardinality({r \in Plays : InFlight(r)}) < MaxInFlight
    /\ LET vc == voice_clients[g]
           ps == [plays EXCEPT ![p].guild = g, ![p].chan = ch]
       IN IF vc = "none"
          THEN /\ GuildCheck(p, g, ps, voice_clients)
               /\ UNCHANGED queues
          ELSE IF ~is_connected(vc, g)
          THEN /\ plays' = [ps EXCEPT ![p].pc = "cleanup_stale", ![p].vc = vc]
               /\ UNCHANGED <<queues, voice_clients, transport, advances, reply>>
          ELSE IF transport[g].chan # ch
          THEN /\ plays' = [ps EXCEPT ![p].pc = "move", ![p].vc = vc]
               /\ UNCHANGED <<queues, voice_clients, transport, advances, reply>>
          ELSE /\ \E found \in BOOLEAN : Resolve(p, g, found, ps)
               /\ UNCHANGED <<voice_clients, transport, advances>>
    /\ UNCHANGED <<api, startup, guilds, inactivity_timers, timer_tasks, vsu, stops, drops>>

\* the author is in no voice channel, or the bot may not connect or speak there
PlayRejected(p, g) ==
    /\ plays[p].pc = "init"
    /\ IF p = 1 THEN TRUE ELSE plays[p - 1].pc # "init"
    /\ plays' = [plays EXCEPT ![p] = Finished([@ EXCEPT !.guild = g])]
    /\ reply' = Reply(p, "rejected")
    /\ UNCHANGED <<api, startup, guilds, queues, voice_clients, inactivity_timers, timer_tasks, transport, advances,
                   vsu, stops, drops>>

\* resumed after `await voice_client.cleanup()` of the stale handle
PlayCleanupStale(p) ==
    /\ plays[p].pc = "cleanup_stale"
    /\ GuildCheck(p, plays[p].guild, plays,
                  [voice_clients EXCEPT ![plays[p].guild] = "none"])
    /\ UNCHANGED <<api, startup, guilds, queues, inactivity_timers, timer_tasks, vsu, stops, drops>>

\* resumed after `await guild.voice_client.disconnect(force=True)`
PlayGuildDisc(p) ==
    /\ plays[p].pc = "guild_disc"
    /\ TryConnect(p, plays[p].guild, 0, plays, voice_clients)
    /\ UNCHANGED <<api, startup, guilds, queues, inactivity_timers, timer_tasks, vsu, stops, drops>>

\* a connect whose client is kept in voice_clients before the handshake sleep
ConnectReturnedStored(p, g) ==
    /\ transport' = [transport EXCEPT ![g].st = "connected"]
    /\ plays' = [plays EXCEPT ![p].pc = "handshake"]
    /\ voice_clients' = [voice_clients EXCEPT ![g] = plays[p].vc]
    /\ UNCHANGED <<advances, reply>>

\* voice_channel.connect returned a client: the handshake sleep follows, and the
\* handle is kept only after it
ConnectReturned(p, g) ==
    /\ transport' = [transport EXCEPT ![g].st = "connected"]
    /\ plays' = [plays EXCEPT ![p].pc = "handshake"]
    /\ UNCHANGED <<voice_clients, advances, reply>>

\* a connect whose failure leaves the half-made client registered with the guild
PlayConnectKeeps(p) ==
    /\ plays[p].pc = "connect"
    /\ LET g == plays[p].guild
           a == plays[p].attempt
       IN IF plays[p].vc = "live"
          THEN \E ok \in BOOLEAN :
                 IF ok
                 THEN ConnectReturned(p, g)
                 ELSE /\ AfterExcept(p, g, a, plays, voice_clients)
                      /\ UNCHANGED <<transport, advances>>
          ELSE ConnectRaised(p, g, a, plays, voice_clients)
    /\ UNCHANGED <<api, startup, guilds, queues, inactivity_timers, timer_tasks, vsu, stops, drops>>

\* voice_channel.connect resolves: it returns the client, or raises
PlayConnect(p) ==
    /\ plays[p].pc = "connect"
    /\ LET g == plays[p].guild
           a == plays[p].attempt
       IN IF plays[p].vc = "live"
          THEN \E ok \in BOOLEAN :
                 IF ok
                 THEN ConnectReturned(p, g)
                 ELSE /\ transport' = KillT(transport, g)
                      /\ AfterExcept(p, g, a, plays, voice_clients)
                      /\ UNCHANGED advances
          ELSE ConnectRaised(p, g, a, plays, voice_clients)
    /\ UNCHANGED <<api, startup, guilds, queues, inactivity_timers, timer_tasks, vsu, stops, drops>>

\* resumed after the handshake sleep: store the handle and go on, or clean up
PlayHandshake(p) ==
    /\ plays[p].pc = "handshake"
    /\ LET g == plays[p].guild
       IN IF is_connected(plays[p].vc, g)
          THEN /\ voice_clients' = [voice_clients EXCEPT ![g] = plays[p].vc]
               /\ \E found \in BOOLEAN : Resolve(p, g, found, plays)
          ELSE /\ plays' = [plays EXCEPT ![p].pc = "cleanup_failed", ![p].vc = "none"]
               /\ UNCHANGED <<queues, voice_clients, reply>>
    /\ UNCHANGED <<api, startup, guilds, inactivity_timers, timer_tasks, transport, advances, vsu, stops, drops>>

\* resumed after `await voice_client.cleanup()` of a client that did not connect
PlayCleanupFailed(p) ==
    /\ plays[p].pc = "cleanup_failed"
    /\ IF plays[p].attempt + 1 < max_retries
       THEN TryConnect(p, plays[p].guild, plays[p].attempt + 1, plays, voice_clients)
       ELSE /\ plays' = [plays EXCEPT ![p] = Finished(@)]
            /\ reply' = Reply(p, "connect_failed")
            /\ UNCHANGED <<voice_clients, transport, advances>>
    /\ UNCHANGED <<api, startup, guilds, queues, inactivity_timers, timer_tasks, vsu, stops, drops>>

\* resumed after the except handler's `guild.voice_client.disconnect(force=True)`
PlayExcDisc(p) ==
    /\ plays[p].pc = "exc_disc"
    /\ AfterExcept(p, plays[p].guild, plays[p].attempt, plays, voice_clients)
    /\ UNCHANGED <<api, startup, guilds, queues, inactivity_timers, timer_tasks, transport, advances, vsu, stops, drops>>

\* resumed after the 3 s sleep between attempts
PlayRetry(p) ==
    /\ plays[p].pc = "retry_sleep"
    /\ TryConnect(p, plays[p].guild, plays[p].attempt + 1, plays, voice_clients)
    /\ UNCHANGED <<api, startup, guilds, queues, inactivity_timers, timer_tasks, vsu, stops, drops>>

\* a move made as a reconnect: the new client has no player
PlayMoveReconnects(p) ==
    /\ plays[p].pc = "move"
    /\ LET g == plays[p].guild
       IN /\ transport' = [transport EXCEPT ![g] =
                              [st |-> "connected", chan |-> plays[p].chan,
                               play |-> "idle", track |-> NoTrack]]
          /\ plays' = [plays EXCEPT ![p].pc = "move_sleep"]
    /\ UNCHANGED <<api, startup, guilds, queues, voice_clients, inactivity_timers, timer_tasks, advances, vsu,
                   reply, stops, drops>>

\* voice_client.move_to resolves
PlayMove(p) ==
    /\ plays[p].pc = "move"
    /\ LET g == plays[p].guild
       IN \E ok \in BOOLEAN :
            IF ok
            THEN /\ transport' = IF plays[p].vc = "live"
                                 THEN [transport EXCEPT ![g].chan = plays[p].chan]
                                 ELSE transport
                 /\ plays' = [plays EXCEPT ![p].pc = "move_sleep"]
                 /\ UNCHANGED reply
            ELSE /\ plays' = [plays EXCEPT ![p] = Finished(@)]
                 /\ reply' = Reply(p, "move_failed")
                 /\ UNCHANGED transport
    /\ UNCHANGED <<api, startup, guilds, queues, voice_clients, inactivity_timers, timer_tasks, advances, vsu, stops, drops>>

\* resumed after the 0.5 s sleep that follows the move
PlayMoveSleep(p) ==
    /\ plays[p].pc = "move_sleep"
    /\ \E found \in BOOLEAN : Resolve(p, plays[p].guild, found, plays)
    /\ UNCHANGED <<api, startup, guilds, voice_clients, inactivity_timers, timer_tasks, transport, advances, vsu, stops, drops>>

\* resumed after "Now playing" and the 1 s sleep: play_next
PlaySettle(p) ==
    /\ plays[p].pc = "settle"
    /\ \E start_ok \in BOOLEAN : play_next(plays[p].guild, start_ok)
    /\ plays' = [plays EXCEPT ![p] = Finished(@)]
    /\ UNCHANGED <<api, startup, guilds, advances, vsu, reply, stops, drops>>

\* ---- the playlist play command ----------------------------------------------

\* play_playlist from `queue = self.get_queue(...)` to its return: the songs are
\* added, play_next is called when the queue is not marked playing, and the
\* command answers.  vcs is voice_clients as the command has left it.
PlaylistAdd(p, g, vcs) ==
    \E n \in 1..MaxSongs, start_ok \in BOOLEAN :
        LET qs == get_queue(queues, g)
            q  == add_all(qs[g], playlist_songs(n))
            qs1 == [qs EXCEPT ![g] = q]
        IN /\ IF ~q.is_playing
              THEN play_next_in(qs1, vcs, g, start_ok)
              ELSE /\ queues' = qs1
                   /\ voice_clients' = vcs
                   /\ UNCHANGED <<inactivity_timers, timer_tasks, transport>>
           /\ reply' = Reply(p, "playlist_added")

\* the command arrives with the author in channel ch and a stored playlist of
\* this guild that is not empty: after ctx.defer() and db.get_playlist it runs
\* to its next await.  A handle that is stored is used without asking whether
\* it is connected; the channel of a disconnected client is whatever it was.
PlaylistBegin(p, g, ch) ==
    /\ p = MaxPlays
    /\ plays[p].pc = "init"
    /\ ch \in AuthorChannels(g)
    /\ Cardinality({r \in Plays : InFlight(r)}) < MaxInFlight
    /\ LET vc == voice_clients[g]
           ps == [plays EXCEPT ![p].guild = g, ![p].chan = ch]
       IN IF vc = "none"
          THEN IF transport[g].st = "none"
               THEN /\ transport' = [transport EXCEPT ![g] =
                                        [st |-> "connecting", chan |-> ch,
                                         play |-> "idle", track |-> NoTrack]]
                    /\ plays' = [ps EXCEPT ![p].pc = "pl_connect", ![p].vc = "live"]
                    /\ UNCHANGED <<queues, voice_clients, inactivity_timers, timer_tasks, reply>>
               ELSE /\ plays' = [ps EXCEPT ![p] = Finished(@)]
                    /\ reply' = Reply(p, "playlist_connect_failed")
                    /\ UNCHANGED <<queues, voice_clients, inactivity_timers, timer_tasks, transport>>
          ELSE \E differs \in IF is_connected(vc, g) THEN {transport[g].chan # ch} ELSE BOOLEAN :
                 IF differs
                 THEN /\ plays' = [ps EXCEPT ![p].pc = "pl_move", ![p].vc = vc]
                      /\ UNCHANGED <<queues, voice_clients, inactivity_timers, timer_tasks,
                                     transport, reply>>
                 ELSE /\ plays' = [ps EXCEPT ![p] = Finished(@)]
                      /\ PlaylistAdd(p, g, voice_clients)
    /\ UNCHANGED <<api, startup, guilds, advances, vsu, stops, drops>>

\* the library ends the connect: the client is connected, or the connect fails
\* and the client is disconnected
PlaylistConnect(p) ==
    /\ plays[p].pc = "pl_connect"
    /\ LET g == plays[p].guild
       IN IF plays[p].vc = "live"
          THEN \E ok \in BOOLEAN :
                 IF ok
                 THEN /\ transport' = [transport EXCEPT ![g].st = "connected"]
                      /\ plays' = [plays EXCEPT ![p].pc = "pl_connected"]
                 ELSE /\ transport' = KillT(transport, g)
                      /\ plays' = [plays EXCEPT ![p].pc = "pl_connected", ![p].vc = "none"]
          ELSE /\ plays' = [plays EXCEPT ![p].pc = "pl_connected", ![p].vc = "none"]
               /\ UNCHANGED transport
    /\ UNCHANGED <<api, startup, guilds, queues, voice_clients, inactivity_timers, timer_tasks,
                   advances, vsu, reply, stops, drops>>

\* resumed after `await voice_channel.connect()`: it raised, or it returned the
\* client, which is stored at once
PlaylistConnected(p) ==
    /\ plays[p].pc = "pl_connected"
    /\ LET g == plays[p].guild
       IN /\ plays' = [plays EXCEPT ![p] = Finished(@)]
          /\ IF plays[p].vc = "none"
             THEN /\ reply' = Reply(p, "playlist_connect_failed")
                  /\ UNCHANGED <<queues, voice_clients, inactivity_timers, timer_tasks, transport>>
             ELSE PlaylistAdd(p, g, [voice_clients EXCEPT ![g] = plays[p].vc])
    /\ UNCHANGED <<api, startup, guilds, advances, vsu, stops, drops>>

\* voice_client.move_to(voice_channel) resolves: the client is in the author's
\* channel, or the call fails
PlaylistMove(p) ==
    /\ plays[p].pc = "pl_move"
    /\ LET g == plays[p].guild
       IN \E ok \in BOOLEAN :
            IF ok
            THEN /\ transport' = IF plays[p].vc = "live"
                                 THEN [transport EXCEPT ![g].chan = plays[p].chan]
                                 ELSE transport
                 /\ plays' = [plays EXCEPT ![p].pc = "pl_moved"]
            ELSE /\ plays' = [plays EXCEPT ![p].pc = "pl_move_failed"]
                 /\ UNCHANGED transport
    /\ UNCHANGED <<api, startup, guilds, queues, voice_clients, inactivity_timers, timer_tasks,
                   advances, vsu, reply, stops, drops>>

\* resumed after `await voice_client.move_to(voice_channel)`: an exception goes
\* to the outer handler
PlaylistMoved(p) ==
    /\ plays[p].pc \in {"pl_moved", "pl_move_failed"}
    /\ LET g == plays[p].guild
       IN /\ plays' = [plays EXCEPT ![p] = Finished(@)]
          /\ IF plays[p].pc = "pl_move_failed"
             THEN /\ reply' = Reply(p, "playlist_failed")
                  /\ UNCHANGED <<queues, voice_clients, inactivity_timers, timer_tasks, transport>>
             ELSE PlaylistAdd(p, g, voice_clients)
    /\ UNCHANGED <<api, startup, guilds, advances, vsu, stops, drops>>

\* ---- pause, resume, skip, stop --------------------------------------------

\* the reply of pause, resume or skip (ctx.respond)
Responds(result) == [play |-> 0, result |-> result, position |-> 0]

\* a pause that also pauses a player that is paused already
pause_again(g, result) ==
    LET qs == get_queue(queues, g)
    IN /\ IF is_connected(voice_clients[g], g) /\ transport[g].play # "idle"
          THEN /\ transport' = [transport EXCEPT ![g].play = "paused"]
               /\ queues' = [qs EXCEPT ![g].is_paused = TRUE]
               /\ result = "pause_ok"
          ELSE /\ queues' = qs
               /\ UNCHANGED transport
               /\ result = "pause_nothing_playing"
       /\ UNCHANGED <<api, startup, guilds, voice_clients, inactivity_timers, timer_tasks, advances, vsu, plays, stops, drops>>

\* the pause command; result is what it answers
pause(g, result) ==
    LET qs == get_queue(queues, g)
    IN /\ IF is_connected(voice_clients[g], g) /\ transport[g].play = "playing"
          THEN /\ transport' = [transport EXCEPT ![g].play = "paused"]
               /\ queues' = [qs EXCEPT ![g].is_paused = TRUE]
               /\ result = "pause_ok"
          ELSE /\ queues' = qs
               /\ UNCHANGED transport
               /\ result = "pause_nothing_playing"
       /\ UNCHANGED <<api, startup, guilds, voice_clients, inactivity_timers, timer_tasks, advances, vsu, plays, stops, drops>>

Pause(g) ==
    /\ \E result \in {"pause_ok", "pause_nothing_playing"} : pause(g, result)
    /\ UNCHANGED reply

\* a resume that leaves the queue marked paused
resume_keeps_flag(g, result) ==
    LET qs == get_queue(queues, g)
    IN /\ IF is_connected(voice_clients[g], g) /\ transport[g].play = "paused"
          THEN /\ transport' = [transport EXCEPT ![g].play = "playing"]
               /\ result = "resume_ok"
          ELSE /\ UNCHANGED transport
               /\ result = "resume_nothing_paused"
       /\ queues' = qs
       /\ UNCHANGED <<api, startup, guilds, voice_clients, inactivity_timers, timer_tasks, advances,
                      vsu, plays, stops, drops>>

\* the resume command; result is what it answers
resume(g, result) ==
    LET qs == get_queue(queues, g)
    IN /\ IF is_connected(voice_clients[g], g) /\ transport[g].play = "paused"
          THEN /\ transport' = [transport EXCEPT ![g].play = "playing"]
               /\ queues' = [qs EXCEPT ![g].is_paused = FALSE]
               /\ result = "resume_ok"
          ELSE /\ queues' = qs
               /\ UNCHANGED transport
               /\ result = "resume_nothing_paused"
       /\ UNCHANGED <<api, startup, guilds, voice_clients, inactivity_timers, timer_tasks, advances, vsu, plays, stops, drops>>

Resume(g) ==
    /\ \E result \in {"resume_ok", "resume_nothing_paused"} : resume(g, result)
    /\ UNCHANGED reply

\* voice_client.stop(): the player stops and its thread calls `after`
Stopped(tr, g) == [tr EXCEPT ![g].play = "idle", ![g].track = NoTrack]

\* a skip that also advances the queue itself (MusicQueue.skip)
SkipPops(g) ==
    /\ queues' = [get_queue(queues, g) EXCEPT ![g] = next_rest(@)]
    /\ IF is_connected(voice_clients[g], g) /\ transport[g].play # "idle"
       THEN /\ transport' = Stopped(transport, g)
            /\ advances' = [advances EXCEPT ![g] =
                               @ \cup {Callback(transport[g].track, "skip", "live")}]
       ELSE UNCHANGED <<transport, advances>>
    /\ UNCHANGED <<api, startup, guilds, voice_clients, inactivity_timers, timer_tasks, vsu, plays, reply, stops, drops>>

\* a skip that stops the transport whatever it is doing
skip_always(g, result) ==
    /\ queues' = get_queue(queues, g)
    /\ IF is_connected(voice_clients[g], g)
       THEN /\ transport' = Stopped(transport, g)
            /\ advances' = [advances EXCEPT ![g] =
                               @ \cup {Callback(transport[g].track, "skip", "live")}]
            /\ result = "skip_ok"
       ELSE /\ UNCHANGED <<transport, advances>>
            /\ result = "skip_nothing_playing"
    /\ UNCHANGED <<api, startup, guilds, voice_clients, inactivity_timers, timer_tasks, vsu, plays, stops, drops>>

\* the skip command; result is what it answers
skip(g, result) ==
    /\ queues' = get_queue(queues, g)
    /\ IF is_connected(voice_clients[g], g) /\ transport[g].play # "idle"
       THEN /\ transport' = Stopped(transport, g)
            /\ advances' = [advances EXCEPT ![g] =
                               @ \cup {Callback(transport[g].track, "skip", "live")}]
            /\ result = "skip_ok"
       ELSE /\ UNCHANGED <<transport, advances>>
            /\ result = "skip_nothing_playing"
    /\ UNCHANGED <<api, startup, guilds, voice_clients, inactivity_timers, timer_tasks, vsu, plays, stops, drops>>

Skip(g) ==
    /\ \E result \in {"skip_ok", "skip_nothing_playing"} : skip(g, result)
    /\ UNCHANGED reply

\* a stop that leaves the watchdog running
stop_keeps_timer(s, g, qs, vcs, caught) ==
    /\ voice_clients' = [vcs EXCEPT ![g] = "none"]
    /\ inactivity_timers' = inactivity_timers
    /\ timer_tasks' = timer_tasks
    /\ queues' = [qs EXCEPT ![g] = clear(@)]
    /\ stops' = [stops EXCEPT ![s].pc = "done", ![s].guild = g,
                              ![s].caught = caught]

\* stop from `await voice_client.disconnect()` on: forget the handle, cancel the
\* watchdog, clear the queue
StopRest(s, g, qs, vcs, caught) ==
    /\ voice_clients' = [vcs EXCEPT ![g] = "none"]
    /\ inactivity_timers' = cancel_inactivity_timer(inactivity_timers, g)
    /\ timer_tasks' = cancel_task(timer_tasks, inactivity_timers, g)
    /\ queues' = [qs EXCEPT ![g] = clear(@)]
    /\ stops' = [stops EXCEPT ![s].pc = "done", ![s].guild = g,
                              ![s].caught = caught]

\* the stop command up to its first await
StopBegin(s, g) ==
    /\ stops[s].pc = "init"
    /\ IF s = 1 THEN TRUE ELSE stops[s - 1].pc # "init"
    /\ LET vc == voice_clients[g]
           qs == get_queue(queues, g)
           tr == IF is_connected(vc, g) /\ transport[g].play # "idle"
                 THEN Stopped(transport, g) ELSE transport
           adv == IF is_connected(vc, g) /\ transport[g].play # "idle"
                  THEN [advances EXCEPT ![g] =
                           @ \cup {Callback(transport[g].track, "stop", "live")}]
                  ELSE advances
       IN IF vc = "none"
          THEN /\ queues' = [qs EXCEPT ![g] = clear(@)]
               /\ stops' = [stops EXCEPT ![s].pc = "done", ![s].guild = g,
                                         ![s].caught = Connecting(g) # {}]
               /\ UNCHANGED <<voice_clients, inactivity_timers, timer_tasks, transport, advances, plays>>
          ELSE IF vc = "live"
          THEN /\ transport' = KillT(tr, g)
               /\ advances' = KillA(adv, tr, g)
               /\ voice_clients' = KillV(voice_clients, g)
               /\ plays' = KillP(plays, g)
               /\ queues' = qs
               /\ stops' = [stops EXCEPT ![s].pc = "disconnect", ![s].guild = g,
                                         ![s].caught = Connecting(g) # {}]
               /\ UNCHANGED <<inactivity_timers, timer_tasks>>
          ELSE /\ StopRest(s, g, qs, voice_clients, Connecting(g) # {})
               /\ UNCHANGED <<transport, advances, plays>>
    /\ UNCHANGED <<api, startup, guilds, vsu, reply, drops>>

\* stop resumed after `await voice_client.disconnect()`
StopFinish(s) ==
    /\ stops[s].pc = "disconnect"
    /\ StopRest(s, stops[s].guild, queues, voice_clients, stops[s].caught)
    /\ UNCHANGED <<api, startup, guilds, transport, advances, vsu, plays, reply, drops>>

\* ---- the transport drops the connection; on_voice_state_update -------------

Drop(g) ==
    /\ drops < MaxDrops
    /\ transport[g].st = "connected"
    /\ transport' = KillT(transport, g)
    /\ advances' = KillA(advances, transport, g)
    /\ voice_clients' = KillV(voice_clients, g)
    /\ plays' = KillP(plays, g)
    /\ vsu' = [vsu EXCEPT ![g] = TRUE]
    /\ drops' = drops + 1
    /\ UNCHANGED <<api, startup, guilds, queues, inactivity_timers, timer_tasks, reply, stops>>

\* MusicBot.on_voice_state_update for the bot's own member leaving its channel
on_voice_state_update(g) ==
    /\ vsu[g]
    /\ vsu' = [vsu EXCEPT ![g] = FALSE]
    /\ IF voice_clients[g] # "none"
       THEN /\ voice_clients' = [voice_clients EXCEPT ![g] = "none"]
            /\ queues' = [get_queue(queues, g) EXCEPT ![g] = clear(@)]
       ELSE UNCHANGED <<voice_clients, queues>>
    /\ UNCHANGED <<api, startup, guilds, inactivity_timers, timer_tasks, transport, advances, plays, reply, stops, drops>>

\* ---- the system -----------------------------------------------------------

Next ==
    \/ \E p \in Plays, g \in guilds, ch \in Channels : PlayBegin(p, g, ch)
    \/ \E p \in Plays, g \in guilds : PlayRejected(p, g)
    \/ \E p \in Plays : PlayCleanupStale(p)
    \/ \E p \in Plays : PlayGuildDisc(p)
    \/ \E p \in Plays : PlayConnect(p)
    \/ \E p \in Plays : PlayHandshake(p)
    \/ \E p \in Plays : PlayCleanupFailed(p)
    \/ \E p \in Plays : PlayExcDisc(p)
    \/ \E p \in Plays : PlayRetry(p)
    \/ \E p \in Plays : PlayMove(p)
    \/ \E p \in Plays : PlayMoveSleep(p)
    \/ \E p \in Plays : PlaySettle(p)
    \/ \E g \in Guilds : Advance(g)
    \/ \E g \in Guilds : TrackFinished(g)
    \/ \E g \in guilds : Pause(g)
    \/ \E g \in guilds : Resume(g)
    \/ \E g \in guilds : Skip(g)
    \/ \E s \in Stops, g \in guilds : StopBegin(s, g)
    \/ \E s \in Stops : StopFinish(s)
    \/ \E g \in Guilds : TimerFire(g)
    \/ \E g \in Guilds : TimerDisconnected(g)
    \/ \E g \in Guilds : Drop(g)
    \/ \E g \in Guilds : on_voice_state_update(g)

Spec == Init /\ [][Next]_vars

\* ---- the commands with their answers: fewer play commands, two stops -------

PauseReplied(g) ==
    \E result \in {"pause_ok", "pause_nothing_playing"} :
        pause(g, result) /\ reply' = Responds(result)

ResumeReplied(g) ==
    \E result \in {"resume_ok", "resume_nothing_paused"} :
        resume(g, result) /\ reply' = Responds(result)

SkipReplied(g) ==
    \E result \in {"skip_ok", "skip_nothing_playing"} :
        skip(g, result) /\ reply' = Responds(result)

NextCmd ==
    \/ \E p \in 1..CmdPlays, g \in guilds, ch \in Channels : PlayBegin(p, g, ch)
    \/ \E p \in 1..CmdPlays, g \in guilds : PlayRejected(p, g)
    \/ \E p \in Plays : PlayCleanupStale(p)
    \/ \E p \in Plays : PlayGuildDisc(p)
    \/ \E p \in Plays : PlayConnect(p)
    \/ \E p \in Plays : PlayHandshake(p)
    \/ \E p \in Plays : PlayCleanupFailed(p)
    \/ \E p \in Plays : PlayExcDisc(p)
    \/ \E p \in Plays : PlayRetry(p)
    \/ \E p \in Plays : PlayMove(p)
    \/ \E p \in Plays : PlayMoveSleep(p)
    \/ \E p \in Plays : PlaySettle(p)
    \/ \E g \in Guilds : Advance(g)
    \/ \E g \in Guilds : TrackFinished(g)
    \/ \E g \in guilds : PauseReplied(g)
    \/ \E g \in guilds : ResumeReplied(g)
    \/ \E g \in guilds : SkipReplied(g)
    \/ \E s \in StopIds, g \in guilds : StopBegin(s, g)
    \/ \E s \in StopIds : StopFinish(s)
    \/ \E g \in Guilds : TimerFire(g)
    \/ \E g \in Guilds : TimerDisconnected(g)
    \/ \E g \in Guilds : Drop(g)
    \/ \E g \in Guilds : on_voice_state_update(g)

SpecCmd == Init /\ [][NextCmd]_vars

\* ---- process start: the clean-up of stale voice sessions -------------------

\* the guilds from position i of the loop on that have a voice client
StaleFrom(i) ==
    {j \in i..Len(GuildSeq) : GuildSeq[j] \in guilds /\ transport[GuildSeq[j]].st # "none"}

\* _cleanup_stale_voice_sessions resumed after its 3 s sleep or after a
\* disconnect: on to the next guild that has a voice client, which it
\* force-disconnects; after the last guild it clears voice_clients and queues
cleanup_stale_voice_sessions ==
    /\ startup.pc \in {"sleep", "disconnect"}
    /\ LET todo == StaleFrom(startup.i)
       IN IF todo = {}
          THEN /\ voice_clients' = [g \in Guilds |-> "none"]
               /\ queues' = [g \in Guilds |-> AbsentQueue]
               /\ startup' = CleanupDone
               /\ UNCHANGED <<transport, advances, plays>>
          ELSE LET j == CHOOSE k \in todo : \A l \in todo : k <= l
                   g == GuildSeq[j]
               IN /\ transport' = KillT(transport, g)
                  /\ advances' = KillA(advances, transport, g)
                  /\ voice_clients' = KillV(voice_clients, g)
                  /\ plays' = KillP(plays, g)
                  /\ startup' = [pc |-> "disconnect", i |-> j + 1]
                  /\ UNCHANGED queues
    /\ UNCHANGED <<api, guilds, inactivity_timers, timer_tasks, vsu, reply, stops, drops>>

\* the process from the construction of MusicPlayer on
InitStartup ==
    /\ startup = CleanupScheduled
    /\ guilds = {"g1"}
    /\ queues = [g \in Guilds |-> AbsentQueue]
    /\ voice_clients = [g \in Guilds |-> "none"]
    /\ inactivity_timers = [g \in Guilds |-> "none"]
    /\ timer_tasks = [g \in Guilds |-> 0]
    /\ transport = [g \in Guilds |-> NoTransport]
    /\ advances = [g \in Guilds |-> {}]
    /\ vsu = [g \in Guilds |-> FALSE]
    /\ plays = [p \in Plays |-> IdlePlay]
    /\ reply = NoReply
    /\ stops = [s \in StopIds |-> IdleStop]
    /\ drops = 0
    /\ api = ApiIdle

NextStartup ==
    \/ cleanup_stale_voice_sessions
    \/ \E p \in 1..CmdPlays, g \in guilds, ch \in Channels : PlayBegin(p, g, ch)
    \/ \E p \in 1..CmdPlays, g \in guilds : PlayRejected(p, g)
    \/ \E p \in Plays : PlayCleanupStale(p)
    \/ \E p \in Plays : PlayGuildDisc(p)
    \/ \E p \in Plays : PlayConnect(p)
    \/ \E p \in Plays : PlayHandshake(p)
    \/ \E p \in Plays : PlayCleanupFailed(p)
    \/ \E p \in Plays : PlayExcDisc(p)
    \/ \E p \in Plays : PlayRetry(p)
    \/ \E p \in Plays : PlayMove(p)
    \/ \E p \in Plays : PlayMoveSleep(p)
    \/ \E p \in Plays : PlaySettle(p)
    \/ \E g \in Guilds : Advance(g)
    \/ \E g \in Guilds : TrackFinished(g)
    \/ \E g \in Guilds : TimerFire(g)
    \/ \E g \in Guilds : TimerDisconnected(g)
    \/ \E g \in Guilds : Drop(g)
    \/ \E g \in Guilds : on_voice_state_update(g)

SpecStartup == InitStartup /\ [][NextStartup]_vars

\* ---- two guilds at once ----------------------------------------------------

\* the session of a bot that is a member of both guilds
InitGuilds ==
    /\ startup = CleanupDone
    /\ guilds = Guilds
    /\ queues = [g \in Guilds |-> AbsentQueue]
    /\ voice_clients = [g \in Guilds |-> "none"]
    /\ inactivity_timers = [g \in Guilds |-> "none"]
    /\ timer_tasks = [g \in Guilds |-> 0]
    /\ transport = [g \in Guilds |-> NoTransport]
    /\ advances = [g \in Guilds |-> {}]
    /\ vsu = [g \in Guilds |-> FALSE]
    /\ plays = [p \in Plays |-> IdlePlay]
    /\ reply = NoReply
    /\ stops = [s \in StopIds |-> IdleStop]
    /\ drops = 0
    /\ api = ApiIdle

NextGuilds ==
    \/ \E p \in 1..CmdPlays, g \in guilds, ch \in Channels : PlayBegin(p, g, ch)
    \/ \E p \in Plays : PlayCleanupStale(p)
    \/ \E p \in Plays : PlayGuildDisc(p)
    \/ \E p \in Plays : PlayConnect(p)
    \/ \E p \in Plays : PlayHandshake(p)
    \/ \E p \in Plays : PlayCleanupFailed(p)
    \/ \E p \in Plays : PlayExcDisc(p)
    \/ \E p \in Plays : PlayRetry(p)
    \/ \E p \in Plays : PlayMove(p)
    \/ \E p \in Plays : PlayMoveSleep(p)
    \/ \E p \in Plays : PlaySettle(p)
    \/ \E g \in Guilds : Advance(g)
    \/ \E g \in Guilds : TrackFinished(g)
    \/ \E g \in guilds : Pause(g)
    \/ \E g \in guilds : Resume(g)
    \/ \E g \in guilds : Skip(g)
    \/ \E s \in Stops, g \in guilds : StopBegin(s, g)
    \/ \E s \in Stops : StopFinish(s)
    \/ \E g \in Guilds : TimerFire(g)
    \/ \E g \in Guilds : TimerDisconnected(g)
    \/ \E g \in Guilds : Drop(g)
    \/ \E g \in Guilds : on_voice_state_update(g)

SpecGuilds == InitGuilds /\ [][NextGuilds]_vars

\* ---- playback with player errors -------------------------------------------

NextFail ==
    \/ \E p \in 1..CmdPlays, g \in guilds, ch \in Channels : PlayBegin(p, g, ch)
    \/ \E p \in Plays : PlayCleanupStale(p)
    \/ \E p \in Plays : PlayGuildDisc(p)
    \/ \E p \in Plays : PlayConnect(p)
    \/ \E p \in Plays : PlayHandshake(p)
    \/ \E p \in Plays : PlayCleanupFailed(p)
    \/ \E p \in Plays : PlayExcDisc(p)
    \/ \E p \in Plays : PlayRetry(p)
    \/ \E p \in Plays : PlayMove(p)
    \/ \E p \in Plays : PlayMoveSleep(p)
    \/ \E p \in Plays : PlaySettle(p)
    \/ \E g \in Guilds : Advance(g)
    \/ \E g \in Guilds : TrackFinished(g)
    \/ \E g \in Guilds : TrackFailed(g)
    \/ \E g \in Guilds : TimerFire(g)
    \/ \E g \in Guilds : TimerDisconnected(g)
    \/ \E g \in Guilds : Drop(g)
    \/ \E g \in Guilds : on_voice_state_update(g)

SpecFail == Init /\ [][NextFail]_vars

\* ---- three play commands, finish callbacks and fair scheduling ----------------

NextDrain ==
    \/ \E p \in Plays, g \in guilds, ch \in Channels : PlayBegin(p, g, ch)
    \/ \E p \in Plays : PlayCleanupStale(p)
    \/ \E p \in Plays : PlayGuildDisc(p)
    \/ \E p \in Plays : PlayConnect(p)
    \/ \E p \in Plays : PlayHandshake(p)
    \/ \E p \in Plays : PlayCleanupFailed(p)
    \/ \E p \in Plays : PlayExcDisc(p)
    \/ \E p \in Plays : PlayRetry(p)
    \/ \E p \in Plays : PlayMove(p)
    \/ \E p \in Plays : PlayMoveSleep(p)
    \/ \E p \in Plays : PlaySettle(p)
    \/ \E g \in Guilds : Advance(g)
    \/ \E g \in Guilds : TrackFinished(g)
    \/ \E g \in Guilds : TrackFailed(g)
    \/ \E g \in Guilds : TimerFire(g)
    \/ \E g \in Guilds : TimerDisconnected(g)
    \/ \E g \in Guilds : Drop(g)
    \/ \E g \in Guilds : on_voice_state_update(g)

\* play command p resumes after one of its awaits
PlayResumes(p) ==
    \/ PlayCleanupStale(p) \/ PlayGuildDisc(p) \/ PlayConnect(p) \/ PlayHandshake(p)
    \/ PlayCleanupFailed(p) \/ PlayExcDisc(p) \/ PlayRetry(p)
    \/ PlayMove(p) \/ PlayMoveSleep(p) \/ PlaySettle(p)

\* The event loop resumes every suspended play command and runs every play_next
\* that a callback scheduled; the player thread of a started track reaches the
\* end of the track or an error and calls `after`.
SpecDrain ==
    /\ Init /\ [][NextDrain]_vars
    /\ \A p \in Plays : WF_vars(PlayResumes(p))
    /\ \A g \in Guilds : WF_vars(Advance(g))
    /\ \A g \in Guilds : WF_vars(TrackFinished(g) \/ TrackFailed(g))

\* ---- play commands and one playlist play command ----------------------------

NextPlaylist ==
    \/ \E p \in 1..CmdPlays, g \in guilds, ch \in Channels : PlayBegin(p, g, ch)
    \/ \E p \in Plays : PlayCleanupStale(p)
    \/ \E p \in Plays : PlayGuildDisc(p)
    \/ \E p \in Plays : PlayConnect(p)
    \/ \E p \in Plays : PlayHandshake(p)
    \/ \E p \in Plays : PlayCleanupFailed(p)
    \/ \E p \in Plays : PlayExcDisc(p)
    \/ \E p \in Plays : PlayRetry(p)
    \/ \E p \in Plays : PlayMove(p)
    \/ \E p \in Plays : PlayMoveSleep(p)
    \/ \E p \in Plays : PlaySettle(p)
    \/ \E p \in Plays, g \in guilds, ch \in Channels : PlaylistBegin(p, g, ch)
    \/ \E p \in Plays : PlaylistConnect(p)
    \/ \E p \in Plays : PlaylistConnected(p)
    \/ \E p \in Plays : PlaylistMove(p)
    \/ \E p \in Plays : PlaylistMoved(p)
    \/ \E g \in Guilds : Advance(g)
    \/ \E g \in Guilds : TrackFinished(g)
    \/ \E g \in guilds : Pause(g)
    \/ \E g \in guilds : Resume(g)
    \/ \E g \in Guilds : TimerFire(g)
    \/ \E g \in Guilds : TimerDisconnected(g)
    \/ \E g \in Guilds : Drop(g)
    \/ \E g \in Guilds : on_voice_state_update(g)

SpecPlaylist == Init /\ [][NextPlaylist]_vars

\* ---- BaseBot.safe_api_call -------------------------------------------------

\* what one call of func does: it returns, or raises an exception of this class
Outcomes == {"ok", "HTTPException", "Forbidden", "NotFound", "ConnectionClosed", "ValueError"}

\* what func does at each of its calls
Scripts == [1..MaxCalls -> Outcomes]

\* a retry predicate that matches nothing
retry_never(e) == FALSE

\* retry_if_exception_type((discord.HTTPException, discord.ConnectionClosed)):
\* an isinstance test, and Forbidden and NotFound are subclasses of HTTPException
retry_if_exception_type(e) ==
    e \in {"HTTPException", "Forbidden", "NotFound", "ConnectionClosed"}

\* One attempt of the retrying wrapper.  The body of safe_api_call awaits func and
\* re-raises what it raises; then the wrapper returns the value, lets an exception
\* that is not retried through, raises RetryError once stop_after_attempt is
\* reached, or waits before the next attempt.
ApiAttempt ==
    /\ api.pc = "call"
    /\ api.calls < Len(api.script)
    /\ LET n == api.calls + 1
           out == api.script[n]
       IN api' = IF out = "ok"
                 THEN [api EXCEPT !.pc = "returned", !.calls = n, !.result = "success"]
                 ELSE IF ~retry_if_exception_type(out)
                 THEN [api EXCEPT !.pc = "raised", !.calls = n, !.result = out]
                 ELSE IF n >= stop_after_attempt
                 THEN [api EXCEPT !.pc = "raised", !.calls = n, !.result = "RetryError"]
                 ELSE [api EXCEPT !.pc = "wait", !.calls = n]
    /\ UNCHANGED <<startup, guilds, queues, voice_clients, inactivity_timers, timer_tasks, transport,
                   advances, vsu, plays, reply, stops, drops>>

\* the wait_exponential sleep between two attempts is over
ApiWaited ==
    /\ api.pc = "wait"
    /\ api' = [api EXCEPT !.pc = "call"]
    /\ UNCHANGED <<startup, guilds, queues, voice_clients, inactivity_timers, timer_tasks, transport,
                   advances, vsu, plays, reply, stops, drops>>

\* safe_api_call is called with a func of any behaviour
InitApi ==
    /\ startup = CleanupDone
    /\ guilds = {"g1"}
    /\ queues = [g \in Guilds |-> AbsentQueue]
    /\ voice_clients = [g \in Guilds |-> "none"]
    /\ inactivity_timers = [g \in Guilds |-> "none"]
    /\ timer_tasks = [g \in Guilds |-> 0]
    /\ transport = [g \in Guilds |-> NoTransport]
    /\ advances = [g \in Guilds |-> {}]
    /\ vsu = [g \in Guilds |-> FALSE]
    /\ plays = [p \in Plays |-> IdlePlay]
    /\ reply = NoReply
    /\ stops = [s \in StopIds |-> IdleStop]
    /\ drops = 0
    /\ \E script \in Scripts :
         api = [pc |-> "call", calls |-> 0, script |-> script, result |-> "none"]

NextApi ==
    \/ ApiAttempt
    \/ ApiWaited

SpecApi == InitApi /\ [][NextApi]_vars

\* ---- the claims -----------------------------------------------------------

\* C1: enqueued tracks are listed by get_queue_list in insertion order and leave
\* for playback in that order: every step either leaves the pending sequence
\* alone, appends one track at its tail, removes its head (which becomes the
\* current track), or empties it.
C1_FifoOrder ==
    [][\A g \in Guilds :
         LET q  == get_queue_list(queues[g])
             q2 == get_queue_list(queues'[g])
         IN \/ q2 = q
            \/ \E t \in Tracks : q2 = Append(q, t)
            \/ q # <<>> /\ q2 = Tail(q) /\ queues'[g].current = Head(q)
            \/ q2 = <<>> /\ queues'[g].current = NoTrack]_vars

C1_Witness ==
    \E g \in Guilds : queues[g].current # NoTrack /\ Len(get_queue_list(queues[g])) >= 2

\* C2: after every transition, current is not None exactly when the queue is
\* Playing or Paused (is_playing).
C2_CurrentIffPlaying ==
    \A g \in Guilds : (queues[g].current # NoTrack) <=> queues[g].is_playing

\* C3: processing the finish callback of a playback that a stop ended, once a
\* later play command has a new track playing, leaves current, pending, the
\* status flags and the connection handle as they were.
C3_StaleCallbackNoOp ==
    [][\A g \in Guilds : \A cb \in advances[g] :
         ( /\ cb \notin advances'[g]
           /\ cb.cause = "stop" /\ cb.gen = "dead"
           /\ voice_clients[g] = "live"
           /\ transport[g].play = "playing" /\ transport[g].track # cb.track )
         => /\ queues'[g] = queues[g]
            /\ voice_clients'[g] = voice_clients[g]]_vars

\* C4: processing the finish callback that a stop command's own
\* voice_client.stop() caused never removes a pending track and never starts
\* playback.
C4_StopCallbackNoOp ==
    [][\A g \in Guilds : \A cb \in advances[g] :
         (cb \notin advances'[g] /\ cb.cause = "stop")
         => /\ get_queue_list(queues'[g]) = get_queue_list(queues[g])
            /\ transport'[g] = transport[g]]_vars

\* C5: the watchdog never disconnects a guild for which a play command has
\* arrived and is still running.
C5_WatchdogSparesPlay ==
    [][\A g \in Guilds :
         (inactivity_timers[g] = "sleeping" /\ inactivity_timers'[g] = "disconnecting")
         => ~ \E p \in Plays : plays[p].guild = g /\ InFlight(p)]_vars

\* the operations of guild g that are suspended part-way through
InProgress(g) ==
    {<<"play", p>> : p \in {r \in Plays : plays[r].guild = g /\ InFlight(r)}}
    \cup {<<"stop", s>> : s \in {r \in Stops : stops[r].guild = g /\ stops[r].pc = "disconnect"}}
    \cup (IF inactivity_timers[g] = "disconnecting" THEN {<<"watchdog", 0>>} ELSE {})

\* what the operations on guild g read and write
SessionState(g) ==
    <<queues[g].queue, queues[g].current, queues[g].is_playing, queues[g].is_paused,
      voice_clients[g], inactivity_timers[g]>>

\* C6: the operations on one guild are mutually exclusive: no operation starts
\* or runs on a guild while another one is suspended part-way through.
C6_MutualExclusion ==
    [][\A g \in Guilds :
         InProgress(g) # {} =>
            \/ SessionState(g)' = SessionState(g)
            \/ /\ Cardinality(InProgress(g)) = 1
               /\ InProgress(g)' \subseteq InProgress(g)
               /\ advances'[g] = advances[g]
               /\ \/ InProgress(g)' = {}
                  \/ \E p \in Plays : <<"play", p>> \in InProgress(g)
                                      /\ plays'[p].pc # plays[p].pc]_vars

\* no play command but p has arrived
AlonePlay(p) == \A r \in Plays \ {p} : plays[r].pc = "init"

\* C7: a play command that was connecting when a stop arrived does not leave
\* the session connected, playing or with a pending track: when it returns,
\* no other play command having run, the session is Idle and empty with no handle.
C7_StopDuringConnectApplied ==
    \A s \in Stops : \A p \in Plays :
        ( /\ stops[s].caught /\ stops[s].pc = "done" /\ stops[s].guild = plays[p].guild
          /\ plays[p].pc = "done" /\ AlonePlay(p) )
        => LET g == plays[p].guild
           IN /\ get_queue_list(queues[g]) = <<>>
              /\ queues[g].current = NoTrack
              /\ ~queues[g].is_playing
              /\ voice_clients[g] = "none"
              /\ transport[g].play = "idle"

\* C8: a play command does not start a connect attempt while another play
\* command of the guild is connecting.
C8_OneConnectAttempt ==
    [][\A p \in Plays :
         (plays'[p].pc = "connect" /\ plays[p].pc # "connect")
         => Connecting(plays'[p].guild) \ {p} = {}]_vars

\* C9: the step in which play reports a resolution failure changes nothing of
\* the session, and the step in which it reports a connect failure leaves no
\* track enqueued by it.
C9_FailedPlayLeavesSession ==
    [][\A p \in Plays : \A g \in Guilds :
         (plays'[p].guild = g /\ reply' # reply) =>
            /\ reply' = Reply(p, "resolve_failed")
               => <<queues[g], voice_clients[g], inactivity_timers[g]>>'
                    = <<queues[g], voice_clients[g], inactivity_timers[g]>>
            /\ reply' = Reply(p, "connect_failed") => queues'[g] = queues[g]]_vars

\* C10 (scenario D): when every connect attempt of a play on an idle,
\* unconnected session fails, the caller gets the connect-failed result, the
\* session is Idle with pending as before the call (empty), no handle is stored
\* and no transport connection is kept; and no step of the connecting phase of
\* a play command changes the queue.
C10_ScenarioD ==
    /\ [](\A p \in Plays :
            (plays[p].pc = "done" /\ reply = Reply(p, "connect_failed") /\ AlonePlay(p))
            => LET g == plays[p].guild
               IN /\ get_queue_list(queues[g]) = <<>>
                  /\ queues[g].current = NoTrack
                  /\ ~queues[g].is_playing /\ ~queues[g].is_paused
                  /\ voice_clients[g] = "none"
                  /\ transport[g].st = "none")
    /\ [][\A p \in Plays :
            (plays'[p].pc # plays[p].pc
             /\ (plays'[p].pc \in ConnectingPcs \/ reply' = Reply(p, "connect_failed")))
            => queues' = queues]_vars

C10_Witness ==
    \E p \in Plays :
        plays[p].pc = "done" /\ reply = Reply(p, "connect_failed") /\ AlonePlay(p)

\* the loop runs the play_next that callback cb of guild g scheduled
Advanced(g, cb) == cb \in advances[g] /\ advances'[g] = advances[g] \ {cb}

\* play command p sends `result` in this step
Replies(p, result) == reply' # reply /\ reply'.play = p /\ reply'.result = result

\* C11 (scenario A): the first play command, on an empty, idle, unconnected
\* session, once connected and with its track T1 pending, ends by starting T1:
\* the session is Playing (not paused) with current = T1, nothing pending, the
\* handle stored and no watchdog pending.
C11_ScenarioA ==
    [][\A p \in Plays : \A g \in Guilds :
         ( /\ plays[p].guild = g /\ AlonePlay(p)
           /\ plays[p].pc = "settle" /\ plays'[p].pc = "done"
           /\ get_queue_list(queues[g]) = <<p>> /\ queues[g].current = NoTrack
           /\ transport[g].play = "idle" /\ transport'[g].play = "playing" )
         => /\ queues'[g] = [NewQueue EXCEPT !.current = p, !.is_playing = TRUE]
            /\ transport'[g].track = p
            /\ voice_clients'[g] = "live"
            /\ inactivity_timers'[g] = "none"]_vars

C11_Witness ==
    \E p \in Plays :
        LET g == plays[p].guild
        IN /\ plays[p].pc = "done" /\ AlonePlay(p) /\ reply = Reply(p, "now_playing")
           /\ queues[g].current = p /\ queues[g].is_playing
           /\ get_queue_list(queues[g]) = <<>>
           /\ transport[g].play = "playing" /\ transport[g].track = p

\* C12 (scenario B): a play command that finds the session Playing appends its
\* track to pending and leaves current alone; and when the finish callback of
\* the current track is processed with tracks pending and playback starts, the
\* head of pending becomes current, the rest stays pending and the session is
\* still Playing.
C12_ScenarioB ==
    [][\A g \in Guilds :
         /\ \A p \in Plays :
              ( /\ plays'[p].guild = g /\ Replies(p, "queued")
                /\ queues[g].is_playing /\ queues[g].current # NoTrack )
              => queues'[g] = [queues[g] EXCEPT !.queue = Append(@, p)]
         /\ \A cb \in advances[g] :
              ( /\ Advanced(g, cb) /\ cb.cause = "end"
                /\ queues[g].is_playing /\ queues[g].current = cb.track
                /\ get_queue_list(queues[g]) # <<>>
                /\ transport'[g].play = "playing" )
              => /\ queues'[g].current = Head(get_queue_list(queues[g]))
                 /\ get_queue_list(queues'[g]) = Tail(get_queue_list(queues[g]))
                 /\ queues'[g].is_playing /\ ~queues'[g].is_paused
                 /\ transport'[g].track = queues'[g].current]_vars

C12_Witness ==
    \E g \in Guilds :
        /\ queues[g].current = 2 /\ get_queue_list(queues[g]) = <<3>>
        /\ queues[g].is_playing
        /\ transport[g].play = "playing" /\ transport[g].track = 2
        /\ advances[g] = {}

\* C13 (scenario C): when the finish callback of the current track is processed
\* on a connected, Playing session with nothing pending, the session becomes
\* Idle with current = none, stays connected, and the guild's inactivity
\* watchdog is armed.
C13_ScenarioC ==
    [][\A g \in Guilds : \A cb \in advances[g] :
         ( /\ Advanced(g, cb) /\ cb.cause = "end"
           /\ is_connected(voice_clients[g], g)
           /\ queues[g].is_playing /\ queues[g].current = cb.track
           /\ get_queue_list(queues[g]) = <<>> )
         => /\ queues'[g] = [queues[g] EXCEPT !.current = NoTrack, !.is_playing = FALSE]
            /\ inactivity_timers'[g] = "sleeping"
            /\ voice_clients'[g] = voice_clients[g]
            /\ transport'[g] = transport[g]]_vars

C13_Witness ==
    \E g \in Guilds :
        /\ inactivity_timers[g] = "sleeping"
        /\ is_connected(voice_clients[g], g)
        /\ queues[g].present /\ queues[g].current = NoTrack /\ ~queues[g].is_playing
        /\ get_queue_list(queues[g]) = <<>>
        /\ transport[g].play = "idle" /\ advances[g] = {}

\* C14 (scenario E): skip on a Paused session stops the transport's player,
\* schedules one finish callback and leaves pending and current alone; when
\* that callback is processed with tracks pending and playback starts, the head
\* of pending becomes current and the session is Playing, not paused.
C14_ScenarioE ==
    [][\A g \in Guilds :
         /\ ( /\ transport[g].play = "paused" /\ queues[g].is_paused
              /\ \E cb \in advances'[g] \ advances[g] :
                     cb.cause = "skip" /\ cb.gen = "live" )
            => /\ get_queue_list(queues'[g]) = get_queue_list(queues[g])
               /\ queues'[g].current = queues[g].current
               /\ transport'[g].play = "idle"
               /\ advances'[g] = advances[g]
                                   \cup {Callback(transport[g].track, "skip", "live")}
         /\ \A cb \in advances[g] :
              ( /\ Advanced(g, cb) /\ cb.cause = "skip"
                /\ queues[g].is_paused /\ queues[g].current = cb.track
                /\ get_queue_list(queues[g]) # <<>>
                /\ transport'[g].play = "playing" )
              => /\ queues'[g].current = Head(get_queue_list(queues[g]))
                 /\ get_queue_list(queues'[g]) = Tail(get_queue_list(queues[g]))
                 /\ queues'[g].is_playing /\ ~queues'[g].is_paused]_vars

C14_Witness ==
    \E g \in Guilds :
        /\ queues[g].is_paused /\ queues[g].current = 1
        /\ get_queue_list(queues[g]) = <<2>>
        /\ transport[g].play = "idle"
        /\ advances[g] = {Callback(1, "skip", "live")}

\* what an observer of guild g sees of a stopped session
IdleObserved(g) ==
    /\ get_queue_list(queues[g]) = <<>> /\ queues[g].current = NoTrack
    /\ ~queues[g].is_playing /\ ~queues[g].is_paused
    /\ voice_clients[g] = "none"

\* C15: stop is idempotent.  Every stop command leaves, when it returns, nothing
\* pending, no current track, neither playing nor paused, and no handle; and a
\* stop that arrives in such a state (after a stop, or on a session never
\* started) returns at once, without an error, leaving that state as it is.
C15_StopIdempotent ==
    [][\A s \in StopIds : \A g \in Guilds :
         /\ (stops[s].pc # "done" /\ stops'[s].pc = "done" /\ stops'[s].guild = g)
            => IdleObserved(g)'
         /\ (stops[s].pc = "init" /\ stops'[s].pc # "init" /\ stops'[s].guild = g
             /\ IdleObserved(g))
            => /\ stops'[s].pc = "done"
               /\ IdleObserved(g)'
               /\ UNCHANGED <<transport, advances, inactivity_timers>>]_vars

C15_Witness ==
    /\ \A s \in 1..2 : stops[s].pc = "done" /\ stops[s].guild = "g1"
    /\ plays[1].pc = "done" /\ plays[1].guild = "g1"
    /\ plays[2].pc = "init"
    /\ IdleObserved("g1") /\ queues["g1"].present
    /\ transport["g1"].st = "none"

\* C16: pause on a session that is already Paused answers that nothing is
\* playing, does not touch the transport, and leaves current, pending and the
\* paused flag as they were.
C16_PauseWhilePaused ==
    [][\A g \in Guilds :
         ( /\ guilds = {g}
           /\ queues[g].is_paused /\ transport[g].play = "paused"
           /\ reply' # reply
           /\ reply' \in {Responds("pause_ok"), Responds("pause_nothing_playing")} )
         => /\ reply' = Responds("pause_nothing_playing")
            /\ transport' = transport
            /\ queues'[g] = queues[g]]_vars

C16_Witness ==
    /\ reply = Responds("pause_nothing_playing")
    /\ queues["g1"].is_paused /\ queues["g1"].current # NoTrack
    /\ is_connected(voice_clients["g1"], "g1") /\ transport["g1"].play = "paused"

\* C17: skip when the guild has no connected handle, or its transport plays
\* nothing, answers that nothing is playing, does not stop the transport,
\* schedules no callback, and leaves pending, current, the status flags, the
\* handle and the watchdog as they were.
C17_SkipNothingPlaying ==
    [][\A g \in Guilds :
         ( /\ guilds = {g}
           /\ ~(is_connected(voice_clients[g], g) /\ transport[g].play # "idle")
           /\ reply' # reply
           /\ reply' \in {Responds("skip_ok"), Responds("skip_nothing_playing")} )
         => /\ reply' = Responds("skip_nothing_playing")
            /\ transport' = transport
            /\ advances' = advances
            /\ SessionState(g)' = SessionState(g)]_vars

C17_Witness ==
    /\ reply = Responds("skip_nothing_playing")
    /\ is_connected(voice_clients["g1"], "g1") /\ transport["g1"].play = "idle"
    /\ queues["g1"].present /\ advances["g1"] = {}

\* C18: the start-up clean-up has completed before any command is applied, and
\* no step of it discards a queue or a connection handle (at process start
\* there is none, so any it finds was created by a command since).
C18_StartupReconciliation ==
    /\ [](startup.pc # "done" => \A p \in Plays : plays[p].pc = "init")
    /\ [][startup' # startup => (queues' = queues /\ voice_clients' = voice_clients)]_vars

\* the clean-up has discarded the handle and the queue of a session that a play
\* command started: the track plays on a connection nothing refers to
C18_Witness ==
    /\ startup.pc = "done"
    /\ \E p \in Plays : plays[p].pc = "done" /\ reply = Reply(p, "now_playing")
    /\ transport["g1"].st = "connected" /\ transport["g1"].play = "playing"
    /\ voice_clients["g1"] = "none" /\ ~queues["g1"].present

\* C19: the `after` callback of a playback only hands one play_next to the
\* loop.  The step in which a track plays to its end changes neither queue nor
\* handle nor timer; every step that ends a playback schedules exactly one
\* play_next, for the track that was playing; and no other step schedules one.
C19_CallbackOnlySchedules ==
    [][\A g \in Guilds :
         LET ended == transport[g].play # "idle" /\ transport'[g].play = "idle"
         IN /\ (\E cb \in advances'[g] \ advances[g] : cb.cause = "end" /\ cb.gen = "live")
               => /\ queues' = queues
                  /\ voice_clients' = voice_clients
                  /\ inactivity_timers' = inactivity_timers
            /\ ended => /\ Cardinality(advances'[g]) = Cardinality(advances[g]) + 1
                        /\ \E cb \in advances'[g] : cb.track = transport[g].track
            /\ Cardinality(advances'[g]) > Cardinality(advances[g]) => ended]_vars

C19_Witness ==
    \E g \in Guilds :
        /\ advances[g] = {Callback(1, "end", "live")}
        /\ queues[g].current = 1 /\ queues[g].is_playing
        /\ get_queue_list(queues[g]) = <<2>>
        /\ transport[g].play = "idle" /\ voice_clients[g] = "live"

\* C20: in every reachable state, a guild with no handle stored in voice_clients
\* has no connected voice client.
C20_NoLeakedConnection ==
    \A g \in Guilds : voice_clients[g] = "none" => transport[g].st # "connected"

\* a connection without a handle once every command has returned and the
\* watchdog has nothing left to do: nothing will ever release it
C20_Witness ==
    \E g \in Guilds :
        /\ voice_clients[g] = "none" /\ transport[g].st = "connected"
        /\ \A p \in Plays : ~InFlight(p)
        /\ \A s \in Stops : stops[s].pc # "disconnect"
        /\ inactivity_timers[g] \in {"none", "done"}
        /\ advances[g] = {} /\ ~vsu[g]

\* everything the program and the transport hold for guild g
GuildState(g) ==
    <<queues[g], voice_clients[g], inactivity_timers[g], transport[g], advances[g]>>

\* C21: guilds are independent.  A step that changes anything held for guild A
\* (its queue, current track, status flags, handle, watchdog, transport or
\* scheduled callbacks), or that moves a play or stop command of guild A on,
\* leaves everything held for any other guild B unchanged.
C21_GuildIndependence ==
    [][\A a \in Guilds : \A b \in Guilds \ {a} :
         ( \/ GuildState(a)' # GuildState(a)
           \/ \E p \in Plays : plays'[p] # plays[p] /\ plays'[p].guild = a
           \/ \E s \in Stops : stops'[s] # stops[s] /\ stops'[s].guild = a )
         => GuildState(b)' = GuildState(b)]_vars

C21_Witness ==
    /\ transport["g1"].play = "playing" /\ queues["g1"].is_playing
    /\ voice_clients["g1"] = "live"
    /\ is_connected(voice_clients["g2"], "g2")
    /\ inactivity_timers["g2"] = "sleeping"
    /\ queues["g2"].present /\ ~queues["g2"].is_playing

\* C22: get_queue creates an empty queue for a guild that has none and returns
\* the queue the guild has otherwise, touching no other guild's entry; an entry
\* appears as a new empty queue (to which the same step may add its track); and
\* an entry leaves the registry only in the last step of the start-up clean-up.
C22_RegistryStable ==
    /\ [](\A g \in Guilds :
            /\ get_queue(queues, g)[g].present
            /\ ~queues[g].present => get_queue(queues, g)[g] = NewQueue
            /\ queues[g].present => get_queue(queues, g) = queues
            /\ \A h \in Guilds \ {g} : get_queue(queues, g)[h] = queues[h])
    /\ [][\A g \in Guilds :
            /\ (~queues[g].present /\ queues'[g].present)
               => \/ queues'[g] = NewQueue
                  \/ \E p \in Plays : queues'[g] = add(NewQueue, p)
            /\ (queues[g].present /\ ~queues'[g].present)
               => (startup.pc # "done" /\ startup'.pc = "done")]_vars

C22_Witness ==
    /\ startup.pc = "done"
    /\ queues["g1"].present /\ queues["g1"].current = 1 /\ queues["g1"].is_playing
    /\ get_queue_list(queues["g1"]) = <<2>>
    /\ get_queue(queues, "g1") = queues

\* C23: MusicQueue.next on a queue with pending tracks returns the head and
\* removes it; on a queue with none it returns none and pending stays empty;
\* in both cases current, is_playing and is_paused are as before.
C23_NextFrame ==
    \A g \in Guilds :
        LET q    == queues[g]
            song == next_song(q)
            rest == next_rest(q)
        IN /\ get_queue_list(q) # <<>>
              => song = Head(get_queue_list(q))
                 /\ get_queue_list(rest) = Tail(get_queue_list(q))
           /\ get_queue_list(q) = <<>>
              => song = NoTrack /\ get_queue_list(rest) = <<>>
           /\ rest.current = q.current
           /\ rest.is_playing = q.is_playing
           /\ rest.is_paused = q.is_paused

C23_Witness ==
    \E g \in Guilds :
        /\ queues[g].is_paused /\ queues[g].is_playing /\ queues[g].current = 1
        /\ get_queue_list(queues[g]) = <<2>>
        /\ next_song(queues[g]) = 2
        /\ next_rest(queues[g]) = [queues[g] EXCEPT !.queue = <<>>]

\* C24: cancel_inactivity_timer leaves no watchdog entry for its guild, changes
\* nothing when the guild has none, and leaves the entries of all other guilds
\* as they are; and every step in which a guild's watchdog is cancelled leaves
\* the watchdogs of the other guilds alone.
C24_CancelTimer ==
    /\ [](\A g \in Guilds :
            LET after == cancel_inactivity_timer(inactivity_timers, g)
            IN /\ after[g] = "none"
               /\ inactivity_timers[g] = "none" => after = inactivity_timers
               /\ \A h \in Guilds \ {g} : after[h] = inactivity_timers[h])
    /\ [][\A g \in Guilds :
            (inactivity_timers[g] # "none" /\ inactivity_timers'[g] = "none")
            => \A h \in Guilds \ {g} : inactivity_timers'[h] = inactivity_timers[h]]_vars

C24_Witness ==
    /\ stops[1].pc = "done" /\ stops[1].guild = "g1"
    /\ plays[1].pc = "done" /\ plays[1].guild = "g1"
    /\ queues["g1"].present /\ inactivity_timers["g1"] = "none"
    /\ inactivity_timers["g2"] = "sleeping"

\* safe_api_call has returned to its caller or raised
ApiFinished == api.pc \in {"returned", "raised"}

\* C25: safe_api_call never calls func more than three times; and when func
\* raises HTTPException at its first two calls and returns at the third,
\* safe_api_call has called it exactly three times when it finishes, and it
\* finishes by returning func's result.
C25_RetryThenSucceed ==
    /\ api.calls <= 3
    /\ ( /\ ApiFinished
         /\ api.script[1] = "HTTPException" /\ api.script[2] = "HTTPException"
         /\ api.script[3] = "ok" )
       => (api.pc = "returned" /\ api.calls = 3 /\ api.result = "success")

C25_Witness ==
    /\ api.pc = "returned" /\ api.calls = 3 /\ api.result = "success"
    /\ api.script[1] = "HTTPException" /\ api.script[2] = "HTTPException"
    /\ api.script[3] = "ok"

\* C26: when func raises Forbidden (or NotFound) every time it is called,
\* safe_api_call finishes by raising Forbidden (or NotFound).
C26_SameTypeRaised ==
    \A e \in {"Forbidden", "NotFound"} :
        (ApiFinished /\ \A n \in 1..Len(api.script) : api.script[n] = e)
        => (api.pc = "raised" /\ api.result = e)

\* func raised Forbidden three times and the caller gets a RetryError
C26_Witness ==
    /\ api.pc = "raised" /\ api.result = "RetryError" /\ api.calls = 3
    /\ \A n \in 1..Len(api.script) : api.script[n] = "Forbidden"

\* the session of guild g is Playing or Paused on a live connection
PlayingOrPaused(g) ==
    /\ queues[g].is_playing /\ queues[g].current # NoTrack
    /\ is_connected(voice_clients[g], g)
    /\ transport[g].play \in {"playing", "paused"}

\* C27: a stop command that finds the session Playing or Paused stops the
\* transport's player (its finish callback is scheduled) and disconnects before
\* it suspends; and when a stop command that disconnected returns, nothing is
\* pending, current is none, the session is neither playing nor paused, no
\* handle is stored and no watchdog is pending.
C27_StopPostState ==
    [][\A s \in StopIds : \A g \in Guilds :
         /\ ( /\ stops[s].pc = "init" /\ stops'[s].pc # "init" /\ stops'[s].guild = g
              /\ PlayingOrPaused(g) )
            => /\ stops'[s].pc = "disconnect"
               /\ transport'[g] = NoTransport
               /\ \E cb \in advances'[g] \ advances[g] :
                      cb.track = queues[g].current /\ cb.cause = "stop"
         /\ (stops[s].pc = "disconnect" /\ stops'[s].pc = "done" /\ stops[s].guild = g)
            => /\ IdleObserved(g)'
               /\ inactivity_timers'[g] = "none"]_vars

C27_Witness ==
    /\ stops[1].pc = "done" /\ stops[1].guild = "g1" /\ stops[2].pc = "init"
    /\ plays[1].pc = "done" /\ plays[2].pc = "init"
    /\ IdleObserved("g1") /\ inactivity_timers["g1"] = "none"
    /\ transport["g1"] = NoTransport
    /\ advances["g1"] = {Callback(1, "stop", "dead")}

\* C28: when the report of an unexpected disconnect of guild g has been handled
\* (on_voice_state_update for the bot's own member), the session of g is Idle
\* with nothing pending and no current track, no handle is stored and no
\* watchdog is pending, whatever state the session was in.
C28_DisconnectTearsDown ==
    [][\A g \in Guilds :
         (vsu[g] /\ ~vsu'[g])
         => /\ IdleObserved(g)'
            /\ inactivity_timers'[g] = "none"]_vars

\* the disconnect of an idle, connected session has been handled and its
\* watchdog is still pending
C28_Witness ==
    /\ drops = 1 /\ ~vsu["g1"]
    /\ plays[1].pc = "done" /\ plays[2].pc = "init"
    /\ \A s \in StopIds : stops[s].pc = "init"
    /\ transport["g1"] = NoTransport /\ voice_clients["g1"] = "none"
    /\ inactivity_timers["g1"] = "sleeping"

\* C29: a play command makes at most two connect attempts; and for a play
\* command that runs alone, when an attempt has failed (connect raised, or the
\* client was not connected after the handshake wait) the guild has no voice
\* client and no stored handle at the moment the next attempt starts, and none
\* when the failure is reported.
C29_BoundedConnect ==
    /\ [](\A p \in Plays : plays[p].attempt + 1 <= 2)
    /\ [][\A p \in Plays : \A g \in Guilds :
            (plays[p].guild = g /\ AlonePlay(p)) =>
               /\ (plays[p].pc \in {"cleanup_failed", "retry_sleep"}
                   /\ plays'[p].pc # plays[p].pc)
                  => /\ voice_clients[g] = "none" /\ transport[g].st = "none"
                     /\ plays[p].vc = "none"
                     /\ plays'[p].pc = "connect" => plays'[p].attempt = plays[p].attempt + 1
               /\ Replies(p, "connect_failed")
                  => (voice_clients'[g] = "none" /\ transport'[g].st = "none")]_vars

\* the second attempt of a play command whose first connect came back with a
\* client that was not connected after the handshake wait
C29_Witness ==
    /\ AlonePlay(1) /\ plays[1].pc = "connect" /\ plays[1].attempt = 1
    /\ drops = 1 /\ voice_clients["g1"] = "none"
    /\ transport["g1"].st = "connecting"

\* C30: a play command whose author is in another channel than the live
\* connection moves the connection.  The step that starts the move changes
\* nothing held for the guild; the move itself changes only the channel of the
\* connection, which stays up with its player; and the step after the move
\* leaves handle, watchdog, transport and callbacks alone and changes the queue
\* (created empty if the guild had none) only by appending the command's track.
C30_MoveKeepsSession ==
    [][\A p \in Plays : \A g \in Guilds :
         plays'[p].guild = g =>
            /\ (plays[p].pc = "init" /\ plays'[p].pc = "move")
               => /\ is_connected(voice_clients[g], g)
                  /\ transport[g].chan # plays'[p].chan
                  /\ GuildState(g)' = GuildState(g)
            /\ (plays[p].pc = "move" /\ plays'[p].pc # "move")
               => /\ queues'[g] = queues[g]
                  /\ SessionState(g)' = SessionState(g)
                  /\ advances'[g] = advances[g]
                  /\ transport'[g] = transport[g]
                     \/ transport'[g] = [transport[g] EXCEPT !.chan = plays[p].chan]
            /\ (plays[p].pc = "move_sleep" /\ plays'[p].pc # "move_sleep")
               => /\ voice_clients'[g] = voice_clients[g]
                  /\ inactivity_timers'[g] = inactivity_timers[g]
                  /\ transport'[g] = transport[g]
                  /\ advances'[g] = advances[g]
                  /\ \/ queues'[g] = queues[g]
                     \/ queues'[g] = [get_queue(queues, g)[g] EXCEPT
                                         !.queue = Append(@, p)]]_vars

C30_Witness ==
    /\ plays[1].pc = "done" /\ plays[2].pc = "done" /\ reply = [Reply(2, "queued") EXCEPT !.position = 1]
    /\ transport["g1"].st = "connected" /\ transport["g1"].chan = "B"
    /\ transport["g1"].play = "playing" /\ transport["g1"].track = 1
    /\ voice_clients["g1"] = "live"
    /\ queues["g1"].current = 1 /\ queues["g1"].is_playing
    /\ get_queue_list(queues["g1"]) = <<2>>
    /\ drops = 0 /\ \A s \in StopIds : stops[s].pc = "init"

\* C31: in every reachable state a guild has at most one inactivity watchdog
\* task that was created and has neither finished nor been cancelled, and that
\* task is the one stored in inactivity_timers.
C31_OneWatchdog ==
    \A g \in Guilds :
        /\ timer_tasks[g] <= 1
        /\ timer_tasks[g] = 1 <=> Pending(inactivity_timers, g)

\* the watchdog was armed again while one was pending (both tracks were played
\* and each end found the queue empty), and one task is pending
C31_Witness ==
    /\ timer_tasks["g1"] = 1 /\ inactivity_timers["g1"] = "sleeping"
    /\ plays[1].pc = "done" /\ plays[2].pc = "done" /\ reply = Reply(2, "now_playing")
    /\ is_connected(voice_clients["g1"], "g1") /\ transport["g1"].play = "idle"
    /\ advances["g1"] = {} /\ get_queue_list(queues["g1"]) = <<>>
    /\ queues["g1"].current = NoTrack
    /\ drops = 0 /\ \A s \in StopIds : stops[s].pc = "init"

\* the watchdog of guild g wakes from its sleep in this step
Fires(g) ==
    /\ inactivity_timers[g] = "sleeping"
    /\ inactivity_timers'[g] \in {"disconnecting", "done"}

\* C32: a watchdog that fires disconnects only if the guild is connected, the
\* transport plays nothing, the queue is not marked playing and nothing is
\* pending; if a track is playing or paused, or a track is pending, it changes
\* neither queue nor handle nor transport nor callbacks; and when the
\* disconnect it started has completed, no handle is stored.
C32_WatchdogRevalidates ==
    [][\A g \in Guilds :
         /\ Fires(g) =>
              /\ inactivity_timers'[g] = "disconnecting"
                 => /\ is_connected(voice_clients[g], g)
                    /\ transport[g].play = "idle" /\ ~queues[g].is_playing
                    /\ get_queue_list(queues[g]) = <<>>
                    /\ transport'[g] = NoTransport
              /\ (transport[g].play # "idle" \/ get_queue_list(queues[g]) # <<>>)
                 => /\ queues'[g] = get_queue(queues, g)[g]
                    /\ voice_clients'[g] = voice_clients[g]
                    /\ transport'[g] = transport[g]
                    /\ advances'[g] = advances[g]
         /\ (inactivity_timers[g] = "disconnecting" /\ inactivity_timers'[g] = "done")
            => voice_clients'[g] = "none"]_vars

\* the watchdog is disconnecting and the player it ended was playing track 2
C32_Witness ==
    /\ inactivity_timers["g1"] = "disconnecting"
    /\ advances["g1"] = {Callback(2, "kill", "dead")}
    /\ ~queues["g1"].is_playing /\ queues["g1"].current = NoTrack
    /\ plays[1].pc = "done" /\ plays[2].pc = "done"
    /\ drops = 0 /\ \A s \in StopIds : stops[s].pc = "init"

\* a playback of guild g ends in this step with the finish callback `cause`
Finishes(g, cause) ==
    \E cb \in advances'[g] \ advances[g] : cb.cause = cause /\ cb.gen = "live"

\* C33: a player error is handled like a clean finish.  Every step that ends a
\* playback schedules a play_next for its track.  The step in which the
\* player fails changes what the step of a clean end changes: the player is
\* idle and one play_next is scheduled for the track, and queue, handle and
\* watchdog are untouched.  When that play_next runs on a connected session
\* still marked as playing the track, the head of pending becomes current if
\* playback starts, and with nothing pending the session becomes Idle with
\* current = none and the watchdog armed: as for a clean finish.
C33_ErrorLikeFinish ==
    [][\A g \in Guilds :
         /\ (transport[g].play = "playing" /\ transport'[g].play = "idle")
            => \E cb \in advances'[g] \ advances[g] : cb.track = transport[g].track
         /\ \A cause \in {"end", "error"} :
              Finishes(g, cause)
              => /\ transport'[g] = Stopped(transport, g)[g]
                 /\ advances'[g] = advances[g] \cup {Callback(transport[g].track, cause, "live")}
                 /\ queues' = queues /\ voice_clients' = voice_clients
                 /\ inactivity_timers' = inactivity_timers
         /\ \A cb \in advances[g] :
              ( /\ Advanced(g, cb) /\ cb.cause \in {"end", "error"}
                /\ is_connected(voice_clients[g], g)
                /\ queues[g].is_playing /\ queues[g].current = cb.track )
              => IF get_queue_list(queues[g]) # <<>>
                 THEN /\ queues'[g].current = Head(get_queue_list(queues[g]))
                      /\ get_queue_list(queues'[g]) = Tail(get_queue_list(queues[g]))
                      /\ transport'[g].play = "playing"
                         => (queues'[g].is_playing /\ ~queues'[g].is_paused
                             /\ transport'[g].track = queues'[g].current)
                 ELSE /\ queues'[g] = [queues[g] EXCEPT !.current = NoTrack,
                                                        !.is_playing = FALSE]
                      /\ inactivity_timers'[g] = "sleeping"
                      /\ voice_clients'[g] = voice_clients[g]
                      /\ transport'[g] = transport[g]]_vars

\* track 1 has failed with track 2 pending: its play_next is scheduled
C33_Witness ==
    /\ advances["g1"] = {Callback(1, "error", "live")}
    /\ queues["g1"].current = 1 /\ queues["g1"].is_playing
    /\ get_queue_list(queues["g1"]) = <<2>>
    /\ is_connected(voice_clients["g1"], "g1") /\ transport["g1"].play = "idle"
    /\ reply = [Reply(2, "queued") EXCEPT !.position = 1]

\* a pause or resume command answers in this step
Answers(results) == reply' # reply /\ reply' \in {Responds(r) : r \in results}

\* C34: pause on a Playing session pauses the transport's player and marks the
\* session paused; resume on a Paused session resumes the player and clears
\* the mark; each changes nothing else of the queue (current and pending stay),
\* so that pause followed by resume gives back the session as it was.
C34_PauseResume ==
    [][\A g \in Guilds :
         guilds = {g} =>
           /\ ( /\ Answers({"pause_ok", "pause_nothing_playing"})
                /\ PlayingOrPaused(g) /\ transport[g].play = "playing"
                /\ ~queues[g].is_paused )
              => /\ reply' = Responds("pause_ok")
                 /\ transport'[g] = [transport[g] EXCEPT !.play = "paused"]
                 /\ queues'[g] = [queues[g] EXCEPT !.is_paused = TRUE]
                 /\ PlayingOrPaused(g)'
           /\ ( /\ Answers({"resume_ok", "resume_nothing_paused"})
                /\ PlayingOrPaused(g) /\ transport[g].play = "paused"
                /\ queues[g].is_paused )
              => /\ reply' = Responds("resume_ok")
                 /\ transport'[g] = [transport[g] EXCEPT !.play = "playing"]
                 /\ queues'[g] = [queues[g] EXCEPT !.is_paused = FALSE]
                 /\ PlayingOrPaused(g)']_vars

\* a session that was paused and resumed, with a track pending
C34_Witness ==
    /\ reply = Responds("resume_ok")
    /\ PlayingOrPaused("g1") /\ transport["g1"].play = "playing"
    /\ ~queues["g1"].is_paused /\ queues["g1"].current = 1
    /\ transport["g1"].track = 1
    /\ get_queue_list(queues["g1"]) = <<2>>

\* C35: a play command that enqueues its track while the session is Playing or
\* Paused only appends it to pending: current, the flags, the transport, the
\* handle, the watchdog and the scheduled callbacks stay as they are, the
\* command returns, and the position it reports is the 1-based index of its
\* track in pending at the time of the reply.
C35_EnqueueOnlyAppends ==
    [][\A p \in Plays : \A g \in Guilds :
         ( /\ PlayingOrPaused(g)
           /\ \A n \in DOMAIN get_queue_list(queues[g]) : get_queue_list(queues[g])[n] # p
           /\ \E n \in DOMAIN get_queue_list(queues'[g]) : get_queue_list(queues'[g])[n] = p )
         => /\ queues'[g] = [queues[g] EXCEPT !.queue = Append(@, p)]
            /\ transport' = transport /\ advances' = advances
            /\ voice_clients' = voice_clients
            /\ inactivity_timers' = inactivity_timers
            /\ plays'[p].pc = "done"
            /\ reply'.play = p /\ reply'.result = "queued"
            /\ reply'.position \in DOMAIN queues'[g].queue
            /\ queues'[g].queue[reply'.position] = p]_vars

\* the third play command was told position 2 while the session was Paused on
\* the first track
C35_Witness ==
    /\ reply = [Reply(3, "queued") EXCEPT !.position = 2]
    /\ plays[3].pc = "done"
    /\ queues["g1"].current = 1 /\ queues["g1"].is_playing /\ queues["g1"].is_paused
    /\ get_queue_list(queues["g1"]) = <<2, 3>>
    /\ transport["g1"].play = "paused" /\ transport["g1"].track = 1
    /\ voice_clients["g1"] = "live"

\* C36: no track is lost: a track leaves pending only when the queue is cleared
\* by a stop or a teardown (nothing pending and no current track afterwards) or
\* when the transport starts rendering it in the same step.
C36_NoTrackLost ==
    [][\A g \in Guilds : \A p \in Tracks :
         ( /\ \E n \in DOMAIN get_queue_list(queues[g]) : get_queue_list(queues[g])[n] = p
           /\ \A n \in DOMAIN get_queue_list(queues'[g]) : get_queue_list(queues'[g])[n] # p )
         => \/ get_queue_list(queues'[g]) = <<>> /\ queues'[g].current = NoTrack
            \/ /\ transport'[g].play = "playing" /\ transport'[g].track = p
               /\ transport[g] # transport'[g]
               /\ queues'[g].current = p]_vars

\* two play commands both saw an idle session: the second one's play_next popped
\* track 2 into current while the player was rendering track 1, and returned
C36_Witness ==
    /\ plays[1].pc = "done" /\ plays[2].pc = "done"
    /\ reply = Reply(2, "now_playing")
    /\ transport["g1"].play = "playing" /\ transport["g1"].track = 1
    /\ queues["g1"].current = 2 /\ ~queues["g1"].is_playing
    /\ get_queue_list(queues["g1"]) = <<>>
    /\ voice_clients["g1"] = "live"
    /\ \A s \in StopIds : stops[s].pc = "init"
    /\ drops = 0

\* no command, watchdog disconnect, scheduled play_next or voice-state event of
\* guild g is in progress or waiting
Quiescent(g) == InProgress(g) = {} /\ advances[g] = {} /\ ~vsu[g]

\* C37: no idle connection without a watchdog: in every quiescent state in which
\* guild g holds a live connected handle, the player is idle, the queue is
\* neither playing nor paused and nothing is pending, a watchdog is pending.
C37_IdleHasWatchdog ==
    \A g \in Guilds :
        ( /\ Quiescent(g)
          /\ voice_clients[g] = "live" /\ is_connected(voice_clients[g], g)
          /\ transport[g].play = "idle"
          /\ ~queues[g].is_playing /\ ~queues[g].is_paused
          /\ get_queue_list(queues[g]) = <<>> )
        => Pending(inactivity_timers, g)

\* the first play command connected, found no song and returned: connected,
\* idle, nothing pending, no current track, and no watchdog
C37_Witness ==
    /\ plays[1].pc = "done" /\ AlonePlay(1) /\ reply = Reply(1, "resolve_failed")
    /\ Quiescent("g1")
    /\ voice_clients["g1"] = "live" /\ is_connected(voice_clients["g1"], "g1")
    /\ transport["g1"].play = "idle"
    /\ get_queue_list(queues["g1"]) = <<>> /\ queues["g1"].current = NoTrack
    /\ inactivity_timers["g1"] = "none" /\ timer_tasks["g1"] = 0
    /\ \A st \in StopIds : stops[st].pc = "init"
    /\ drops = 0

\* C38: the session never stalls with work queued: whenever guild g holds a live
\* connected handle and a track is pending, the player is playing or paused, or
\* a play_next is scheduled, or a command or watchdog of the guild is still in
\* progress.
C38_NoStall ==
    \A g \in Guilds :
        ( /\ voice_clients[g] = "live" /\ is_connected(voice_clients[g], g)
          /\ get_queue_list(queues[g]) # <<>> )
        => \/ transport[g].play \in {"playing", "paused"}
           \/ advances[g] # {}
           \/ InProgress(g) # {}
           \/ vsu[g]

\* track 1 ended, the play_next of its callback popped track 2 and failed to
\* start it: track 3 is pending, the player is idle, nothing is scheduled
C38_Witness ==
    /\ \A p \in Plays : plays[p].pc = "done"
    /\ voice_clients["g1"] = "live" /\ is_connected(voice_clients["g1"], "g1")
    /\ get_queue_list(queues["g1"]) = <<3>>
    /\ queues["g1"].current = 2 /\ ~queues["g1"].is_playing
    /\ transport["g1"].play = "idle"
    /\ advances["g1"] = {} /\ InProgress("g1") = {} /\ ~vsu["g1"]
    /\ \A st \in StopIds : stops[st].pc = "init"
    /\ drops = 0

\* no stop, drop or watchdog disconnect of guild g happens or has happened, and
\* no play command is cleaning up a stale handle or a failed connect attempt
StaysLive(g) ==
    /\ drops = 0 /\ ~vsu[g]
    /\ \A st \in StopIds : stops[st].pc = "init"
    /\ inactivity_timers[g] # "disconnecting"
    /\ \A p \in Plays : plays[p].guild = g =>
          plays[p].pc \notin {"cleanup_stale", "guild_disc", "cleanup_failed",
                              "exc_disc", "retry_sleep"}

\* track p is pending in the queue of guild g
InPending(g, p) ==
    \E n \in DOMAIN get_queue_list(queues[g]) : get_queue_list(queues[g])[n] = p

\* the session of guild g is Idle with nothing pending and no current track
Drained(g) ==
    /\ get_queue_list(queues[g]) = <<>> /\ queues[g].current = NoTrack
    /\ ~queues[g].is_playing /\ transport[g].play = "idle"

\* C39: queue drain: in every fair behaviour in which the connection of guild g
\* is never torn down, every pending track eventually becomes current, and the
\* session eventually is Idle with nothing pending and current = none.
C39_QueueDrains ==
    \A g \in Guilds :
        []StaysLive(g) =>
            \A p \in Tracks :
                /\ InPending(g, p) ~> (queues[g].current = p)
                /\ InPending(g, p) ~> Drained(g)

\* the only play command popped track 1 and could not start it: the session
\* stays connected, not playing, with current = track 1 and nothing scheduled
C39_Witness ==
    /\ StaysLive("g1")
    /\ plays[1].pc = "done" /\ AlonePlay(1) /\ reply = Reply(1, "now_playing")
    /\ voice_clients["g1"] = "live" /\ is_connected(voice_clients["g1"], "g1")
    /\ queues["g1"].current = 1 /\ ~queues["g1"].is_playing
    /\ get_queue_list(queues["g1"]) = <<>>
    /\ transport["g1"].play = "idle" /\ advances["g1"] = {}
    /\ inactivity_timers["g1"] = "none"

\* the queue of guild g is Idle and empty: nothing pending, no current track,
\* not marked playing, the player idle
IdleSession(g) ==
    /\ get_queue_list(queues[g]) = <<>> /\ queues[g].current = NoTrack
    /\ ~queues[g].is_playing /\ transport[g].play = "idle"

\* C40: the step in which a playlist play command adds its N songs and answers:
\* on an Idle, empty session the first song becomes current, the other N-1 are
\* pending in playlist order, and the player renders the first song unless
\* starting it raised, also when the handle the command found stored is not
\* connected (a command that connected itself is looked at when its connect
\* succeeded); on a Playing or Paused session the N songs are appended to
\* pending in playlist order and current and the player are left alone.
C40_PlaylistPlays ==
    [][\A p \in Plays : \A g \in Guilds :
         ( /\ Replies(p, "playlist_added") /\ plays'[p].guild = g
           /\ plays[p].pc = "pl_connected" => is_connected(plays[p].vc, g) )
         => \E n \in 1..MaxSongs :
              LET songs == playlist_songs(n)
              IN /\ IdleSession(g)
                    => /\ queues'[g].current = Head(songs)
                       /\ get_queue_list(queues'[g]) = Tail(songs)
                       /\ queues'[g].is_playing
                           => /\ transport'[g].play = "playing"
                              /\ transport'[g].track = Head(songs)
                 /\ PlayingOrPaused(g)
                    => /\ queues'[g] = [queues[g] EXCEPT !.queue = @ \o songs]
                       /\ transport'[g] = transport[g]]_vars

\* the connection dropped and the handle was still stored when the playlist
\* command arrived on the Idle session: it answered that two songs were added,
\* both are pending, nothing is current and nothing plays
C40_Witness ==
    /\ reply = Reply(MaxPlays, "playlist_added") /\ plays[MaxPlays].pc = "done"
    /\ AlonePlay(1) \/ plays[1].pc = "done"
    /\ get_queue_list(queues["g1"]) = playlist_songs(2)
    /\ queues["g1"].current = NoTrack /\ ~queues["g1"].is_playing
    /\ transport["g1"].play = "idle"
    /\ voice_clients["g1"] = "none"
    /\ advances["g1"] = {} /\ InProgress("g1") = {}
    /\ drops = 1

====
